---- MODULE Spec2Model ----
(***************************************************************************)
(* Host side of the knee-rehabilitation telemetry system: the serial link  *)
(* transport (SerialService), the line parser, the dispatch fan-out of     *)
(* routes.ts and the analytics forwarder (N8nService).                     *)
(*                                                                         *)
(* The host is a Node.js process: one macrotask (an I/O event, an HTTP     *)
(* request) runs at a time, and the continuations of resolved promises     *)
(* (microtasks) all run before the next macrotask.  The variable micro is  *)
(* the microtask queue; every macrotask action is guarded by Idle.         *)
(***************************************************************************)
EXTENDS Integers, Sequences, FiniteSets, TLC

\* ---------------------------------------------------------------- bounds
MaxCalls == 2       \* connect() calls in one run, made at any time
MaxSeqCalls == 3    \* connect() calls in one run, made in succession
NumPaths == 2       \* distinct serial device paths
MaxDisc == 2        \* disconnect() calls made by API callers in one run
MaxLines == 2       \* lines received from the link in one run
MaxClients == 1     \* WebSocket subscribers
MaxCmds == 2        \* sendCommand() calls in one run
MaxDevCmds == 3     \* commands the device handles in one run
MaxSent == 2        \* commands the host sends to the device in one run
MaxTicks == 1       \* sampling intervals of the device in one run
MaxDash == 6        \* events the Dashboard handles in one run
MaxSessions == 3    \* session records created in one run

\* connect() call c constructs handle c
Calls == 1..(IF MaxCalls > MaxSeqCalls THEN MaxCalls ELSE MaxSeqCalls)
Paths == 1..NumPaths
Clients == 1..MaxClients
NoPort == 0         \* null port handle / null parser
NoPath == 0         \* null port path
NoWaiter == 0       \* nobody awaits the close callback
ApiCaller == -1     \* a disconnect() made by an API caller awaits it

VARIABLES
    port,             \* SerialService.port: handle id or NoPort
    parser,           \* SerialService.parser: handle id or NoPort
    isConnected,      \* SerialService.isConnected
    currentPortPath,  \* SerialService.currentPortPath
    hstate,           \* state of each SerialPort object ever constructed
    hpath,            \* path each connect() call was given
    connPc,           \* where each connect() call stands
    closeWaiter,      \* who awaits the close callback of a handle
    micro,            \* microtask queue (FIFO)
    serialPorts,      \* MemStorage.serialPorts, keyed by path
    connectedEv,      \* 'connected' events emitted, per handle
    disconnectedEv,   \* 'disconnected' events emitted, per handle
    errorEv,          \* 'error' events emitted by the SerialService
    discCalls,        \* disconnect() calls made by API callers
    discDone,         \* of which resolved
    quiet,            \* a disconnect() resolved and no connect() succeeded since
    wsCount,          \* typed events sent to each WebSocket client, per type
    clients,          \* readyState of each WebSocket client
    wsFrames,         \* knee_data frames sent to each client, in order
    nLines,           \* lines received from the link
    lastLine,         \* the line handled last
    evCount,          \* events emitted by handleArduinoData, per type
    lastParseError,   \* rawData of the parseError emitted last
    lastMessage,      \* text of the message event emitted last
    frames,           \* frames emitted as kneeData, with their analytics call
    sensorReadings,   \* MemStorage.sensorReadings, in insertion order
    insertLog,        \* createSensorReading calls made, each with its outcome
    storageUp,        \* the store accepts an insert
    n8nIsConnected,   \* N8nService.isConnected
    recommendations,  \* recommendations created from analytics responses
    unhandled,        \* promise rejections no handler catches
    written,          \* what each SerialPort object has written to its device
    deferred,         \* write() calls a SerialPort object holds until it opens
    sendLog,          \* sendCommand() calls made, each with its result
    sessionId,        \* firmware: String sessionId
    isRecording,      \* firmware: bool isRecording
    exerciseType,     \* firmware: int exerciseType
    offsets,          \* firmware: calibration offsets (AccError*, GyroError*)
    calStep,          \* firmware: sampling loops of calibrateMPU6050() done
    devPc,            \* firmware: where the program stands
    btOut,            \* firmware: lines printed on the Bluetooth link, in order
    nCmds,            \* firmware: commands handled
    nTicks,           \* firmware: sampling intervals elapsed
    roll,             \* firmware: float roll, degrees
    pitch,            \* firmware: float pitch, degrees
    yaw,              \* firmware: float yaw, degrees
    gyroAngleZ,       \* firmware: float gyroAngleZ, the integrated yaw rate
    elapsedTime,      \* firmware: float elapsedTime, seconds
    debugAngle,       \* firmware: the knee angle last printed on Serial
    sensor,           \* what the MPU6050 and millis() give at the next reading
    btIn,             \* firmware: characters received on Bluetooth and not yet read
    sentCmds,         \* commands sent to the device over the link, in order
    dashConnected,    \* Dashboard: isConnected
    n8nConnected,     \* Dashboard: n8nConnected
    latestData,       \* Dashboard: latestData
    currentSessionId, \* Dashboard: currentSessionId
    sessionStartTime, \* Dashboard: sessionStartTime
    sessionStats,     \* Dashboard: sessionStats
    accepted,         \* Dashboard: angles counted since sessionStats was last reset
    clock,            \* Dashboard: events handled, read as Date.now()
    sessions,         \* storageInstance: sessions, in insertion order
    instanceReadings, \* storageInstance: sensorReadings, in insertion order
    instancePorts,    \* storageInstance: serialPorts, keyed by path
    readingsReply,    \* the last answer of GET /api/sensor-readings?sessionId=
    portsReply        \* the last answer of GET /api/serial/ports

transportVars == <<port, parser, isConnected, currentPortPath, hstate, hpath,
                   connPc, closeWaiter, micro, serialPorts, connectedEv,
                   disconnectedEv, errorEv, discCalls, discDone, quiet>>

dataVars == <<clients, wsFrames, nLines, lastLine, evCount, lastParseError, lastMessage,
              frames,
              sensorReadings, insertLog, storageUp, n8nIsConnected, recommendations,
              unhandled>>

cmdVars == <<written, deferred, sendLog>>

estVars == <<roll, pitch, yaw, gyroAngleZ, elapsedTime, debugAngle, sensor>>

intakeVars == <<btIn, sentCmds>>

deviceVars == <<sessionId, isRecording, exerciseType, offsets, calStep, devPc, btOut,
                nCmds, nTicks, estVars, intakeVars>>

dashVars == <<dashConnected, n8nConnected, latestData, currentSessionId,
              sessionStartTime, sessionStats, accepted, clock>>

queryVars == <<instanceReadings, instancePorts, readingsReply, portsReply>>

storeVars == <<sessions, queryVars>>

hostVars == <<transportVars, wsCount, dataVars, cmdVars>>

extVars == <<deviceVars, dashVars, storeVars>>

vars == <<transportVars, wsCount, dataVars, cmdVars, extVars>>

HandleStates == {"none", "opening", "open", "closing", "closed", "failed"}
ConnPcs == {"unused", "awaitDisconnect", "pending", "resolved", "rejected",
            "returnedFalse"}

\* No microtask is queued: the event loop may take the next macrotask.
Idle == micro = <<>>

\* SerialPort.isOpen: false while opening, closing, closed.
isOpen(h) == h # NoPort /\ hstate[h] = "open"

\* ------------------------------------------------------------ MemStorage
NoRecord == [present |-> FALSE, isActive |-> FALSE]

createOrUpdateSerialPort(reg, path, active) ==
    [reg EXCEPT ![path] = [present |-> TRUE, isActive |-> active]]

setActiveSerialPort(reg, path) ==
    [p \in Paths |->
        IF ~reg[p].present THEN reg[p]
        ELSE [present |-> TRUE, isActive |-> (p = path)]]

getActiveSerialPort(reg) == {p \in Paths : reg[p].present /\ reg[p].isActive}

\* ------------------------------------------------- WebSocket subscribers
MsgTypes == {"status", "arduino_connected", "arduino_disconnected", "session_started",
             "session_stopped", "calibration_complete", "error",
             "recommendations_received"}

\* wss.clients.forEach(client => if (client.readyState === OPEN) client.send(..)):
\* one typed event to every client that is open now.
Broadcast(type) ==
    [k \in Clients |->
        IF clients[k] = "open" THEN [wsCount[k] EXCEPT ![type] = @ + 1] ELSE wsCount[k]]

\* A loop that sends a knee_data event to every client the server has seen,
\* whatever its readyState.
BroadcastFrameToAll(f) == [k \in Clients |-> Append(wsFrames[k], f)]

\* The same loop for a knee_data event carrying frame f.
BroadcastFrame(f) ==
    [k \in Clients |->
        IF clients[k] = "open" THEN Append(wsFrames[k], f) ELSE wsFrames[k]]

\* ----------------------------------------------------------- wire lines
\* A line is a tag followed by the rest of the line.  The rest is empty, a
\* piece of text, a JSON object, or text that is not JSON.  A JSON object is
\* described by the schema fields it carries with the right type, by twice
\* its exerciseType (so that 3 stands for the non-integer 1.5) and by its
\* session id.
FieldNames == {"sessionId", "timestamp", "exerciseType", "rawSensorData", "angles",
               "kneeAngle", "temperature"}
ParserEvents == {"kneeData", "parseError", "sessionStarted", "sessionStopped",
                 "calibrationComplete", "systemReady", "status", "message"}

Rest(kind, present, et2, sid) ==
    [kind |-> kind, present |-> present, et2 |-> et2, sid |-> sid]
EmptyRest == Rest("empty", {}, 0, 0)
Line(tag, rest) == [tag |-> tag, rest |-> rest]
NoLine == Line("", EmptyRest)

\* KNEE_DATA:{...} with every field, exercise mode m, session s.
Frame(m, s) == Line("KNEE_DATA:", Rest("json", FieldNames, 2 * m, s))
\* KNEE_DATA:{...} with one field missing.
FrameWithout(field) == Line("KNEE_DATA:", Rest("json", FieldNames \ {field}, 2, 1))
\* KNEE_DATA: followed by text that is not JSON.
FrameGarbage == Line("KNEE_DATA:", Rest("garbage", {}, 0, 0))

\* JSON.parse(rest) returns a value (does not throw).
JSONparse(rest) == rest.kind = "json"

\* The schema with temperature declared optional.
arduinoDataSchemaOptionalTemperature(obj) ==
    /\ FieldNames \ {"temperature"} \subseteq obj.present
    /\ obj.et2 % 2 = 0
    /\ obj.et2 \div 2 >= 0
    /\ obj.et2 \div 2 <= 2

\* The schema with exerciseType declared as any number.
arduinoDataSchemaAnyMode(obj) == obj.present = FieldNames

\* arduinoDataSchema.parse(obj) returns (does not throw).
arduinoDataSchema(obj) ==
    /\ obj.present = FieldNames
    /\ obj.et2 % 2 = 0
    /\ obj.et2 \div 2 >= 0
    /\ obj.et2 \div 2 <= 2

\* A variant that treats a line it does not know as a fault.
emitOtherAsFault(line) == "parseError"

\* handleArduinoData, lines 368-372: a line of no known kind is logged and
\* emitted as a message.
emitOther(line) == "message"

\* The branch handleArduinoData takes for a line, and the event it emits.
handleArduinoData(line) ==
    IF line.tag = "KNEE_DATA:"
    THEN IF JSONparse(line.rest) /\ arduinoDataSchema(line.rest)
         THEN "kneeData" ELSE "parseError"
    ELSE IF line.tag = "SESSION_STARTED:" THEN "sessionStarted"
    ELSE IF line.tag = "SESSION_STOPPED" /\ line.rest = EmptyRest THEN "sessionStopped"
    ELSE IF line.tag = "CALIBRATION_COMPLETE" /\ line.rest = EmptyRest
         THEN "calibrationComplete"
    ELSE IF line.tag = "SYSTEM_READY" /\ line.rest = EmptyRest THEN "systemReady"
    ELSE IF line.tag = "STATUS:" THEN "status"
    ELSE emitOther(line)

\* ------------------------------------------------- the device firmware
\* Text is a sequence of characters; a keyword of the protocol is one
\* character.  A command and a printed line are a keyword and the text
\* that follows it.
Cmd(head, arg) == [head |-> head, arg |-> arg]
Out(tag, arg) == [tag |-> tag, arg |-> arg]

Digits == {"0", "1", "2", "3", "4", "5", "6", "7", "8", "9"}

DigitVal(c) ==
    CASE c = "0" -> 0 [] c = "1" -> 1 [] c = "2" -> 2 [] c = "3" -> 3
      [] c = "4" -> 4 [] c = "5" -> 5 [] c = "6" -> 6 [] c = "7" -> 7
      [] c = "8" -> 8 [] c = "9" -> 9

DigitChar(d) == CHOOSE c \in Digits : DigitVal(c) = d

\* atol: the digits at the front of s, read in base ten.
RECURSIVE AtolDigits(_, _)
AtolDigits(s, acc) ==
    IF s = <<>> \/ Head(s) \notin Digits THEN acc
    ELSE AtolDigits(Tail(s), acc * 10 + DigitVal(Head(s)))

\* String::toInt(): atol of the text, 0 when it does not start with a number.
toInt(s) ==
    IF s # <<>> /\ Head(s) = "-" THEN 0 - AtolDigits(Tail(s), 0)
    ELSE AtolDigits(s, 0)

\* The long that toInt() returns, stored in an int of 16 bits.
ToInt16(v) == ((v + 32768) % 65536) - 32768

\* String(n): the decimal text of an int.
RECURSIVE NatText(_)
NatText(n) == IF n < 10 THEN <<DigitChar(n)>>
              ELSE NatText(n \div 10) \o <<DigitChar(n % 10)>>

String(n) == IF n < 0 THEN <<"-">> \o NatText(0 - n) ELSE NatText(n)

\* String.prototype.split: the pieces of text between two separators.
RECURSIVE split(_, _)
split(text, sep) ==
    IF \A i \in 1..Len(text) : text[i] # sep THEN <<text>>
    ELSE LET i == CHOOSE k \in 1..Len(text) :
                      text[k] = sep /\ \A j \in 1..(k - 1) : text[j] # sep
         IN <<SubSeq(text, 1, i - 1)>> \o split(SubSeq(text, i + 1, Len(text)), sep)

\* parseInt(text) || 0: the signed number at the front of the text, 0 when
\* there is none.
parseIntOr0(text) ==
    IF text # <<>> /\ Head(text) = "-"
    THEN 0 - AtolDigits(Tail(text), 0)
    ELSE AtolDigits(text, 0)

\* handleArduinoData, lines 360-366: the status object the host builds
\* from the text that follows STATUS:.
decodeStatus(text) ==
    LET statusParts == split(text, ":")
    IN [recording |-> statusParts[1] = <<"RECORDING">>,
        sessionId |-> IF Len(statusParts) >= 2 THEN statusParts[2] ELSE <<>>,
        exerciseType |-> IF Len(statusParts) >= 3 THEN parseIntOr0(statusParts[3])
                         ELSE 0]

\* ------------------------------------------------------- the Dashboard
\* Session ids as the host and the browser see them; null.
SessionIds == {"a", "b"}
NoSession == "null"
NoTime == 0

\* Joint angles: the firmware sends angles between 0 and 160.
Angles == {0, 45, 160}

\* Numbers that are not integers: a fraction in lowest terms.
RECURSIVE Gcd(_, _)
Gcd(m, n) == IF n = 0 THEN m ELSE Gcd(n, m % n)

Frac(num, den) ==
    LET g == Gcd(num, den) IN [num |-> num \div g, den |-> den \div g]

Zero == Frac(0, 1)
Times(q, k) == Frac(q.num * k, q.den)
Plus(q, k) == Frac(q.num + k * q.den, q.den)
Over(q, k) == Frac(q.num, q.den * k)

Max(x, y) == IF x >= y THEN x ELSE y

Stats(n, max, avg) ==
    [present |-> TRUE, readingCount |-> n, maxAngle |-> max, avgAngle |-> avg]
NoStats == [present |-> FALSE, readingCount |-> 0, maxAngle |-> 0, avgAngle |-> Zero]

Data(sid, angle) == [present |-> TRUE, sessionId |-> sid, kneeAngle |-> angle]
NoData == [present |-> FALSE, sessionId |-> NoSession, kneeAngle |-> 0]

DashInit ==
    /\ dashConnected = FALSE
    /\ n8nConnected = FALSE
    /\ latestData = NoData
    /\ currentSessionId = NoSession
    /\ sessionStartTime = NoTime
    /\ sessionStats = NoStats
    /\ accepted = <<>>
    /\ clock = 0

\* --------------------------------------------------- MemStorage.sessions
\* getStorage() builds its own store on the first call (part_001:813-820);
\* nothing has been asked of the API yet.
StoreInit ==
    /\ sessions = <<>>
    /\ instanceReadings = <<>>
    /\ instancePorts = [p \in Paths |-> NoRecord]
    /\ readingsReply = <<>>
    /\ portsReply = <<>>

\* Where the firmware stands: before setup(), in the calibration that
\* setup() runs, between two passes of loop(), in the calibration that a
\* CALIBRATE command runs.
DevPcs == {"boot", "setup", "loop", "calibrate"}

\* Floats are exact fractions. Their sum, product, order.
Num(n) == Frac(n, 1)
Neg(q) == [num |-> 0 - q.num, den |-> q.den]
Add(p, q) ==
    LET g == Gcd(p.den, q.den)
    IN Frac(p.num * (q.den \div g) + q.num * (p.den \div g), (p.den \div g) * q.den)
Mul(p, q) == Frac(p.num * q.num, p.den * q.den)
Less(p, q) == p.num * q.den < q.num * p.den

\* Arduino.h: #define abs(x) ((x)>0?(x):-(x))
abs(x) == IF Less(Zero, x) THEN x ELSE Neg(x)

\* A variant that bounds from below only.
constrainBelow(amt, low, high) ==
    IF Less(amt, Num(low)) THEN Num(low) ELSE amt

\* Arduino.h: #define constrain(amt,low,high)
\*     ((amt)<(low)?(low):((amt)>(high)?(high):(amt)))
constrain(amt, low, high) ==
    IF Less(amt, Num(low)) THEN Num(low)
    ELSE IF Less(Num(high), amt) THEN Num(high)
    ELSE amt

\* Line 468: the weight of the gyroscope in the complementary filter, 0.96.
alpha == Frac(96, 100)

\* One reading of the sensor and of the clock: the angles the accelerometer
\* gives, atan(..) * 180 / PI of lines 664 and 670, in degrees; whether all
\* three accelerations are near zero; the rates GyX / 131.0 of the
\* gyroscope in degrees per second; the milliseconds currentTime -
\* previousTime. Both times are floats: after weeks of running two ticks
\* read the same float, and when millis() wraps the difference is negative.
Sample(ax, ay, fall, gx, gy, gz, ms) ==
    [accX |-> ax, accY |-> ay, freeFall |-> fall,
     gyroX |-> gx, gyroY |-> gy, gyroZ |-> gz, elapsed |-> ms]

\* The sensor lying still with a bias of 1 in every channel, read every
\* 100 ms (line 475).
AtRest == Sample(1, 1, FALSE, 1, 1, 1, 100)

Samples ==
    {AtRest,
     Sample(90, 0 - 90, FALSE, 250, 0 - 250, 250, 1000),
     Sample(30, 0 - 45, FALSE, 250, 250, 250, 0),
     Sample(0 - 90, 90, FALSE, 0 - 250, 250, 0 - 250, 0 - 1000),
     Sample(0, 0, TRUE, 10, 0 - 10, 10, 100),
     Sample(45, 80, FALSE, 0, 20, 0 - 250, 2000)}

\* No knee angle printed yet: no knee angle is negative.
NoAngle == Num(0 - 1)

\* Line 471: the five calibration offsets, in degrees and degrees per second.
Offsets(ax, ay, gx, gy, gz) ==
    [AccErrorX |-> ax, AccErrorY |-> ay,
     GyroErrorX |-> gx, GyroErrorY |-> gy, GyroErrorZ |-> gz]

NoOffsets == Offsets(0, 0, 0, 0, 0)

\* The device at power-on: the initialisers of lines 471-480.
DevInit ==
    /\ sessionId = <<>>
    /\ isRecording = FALSE
    /\ exerciseType = 0
    /\ offsets = NoOffsets
    /\ calStep = 0
    /\ devPc = "boot"
    /\ btOut = <<>>
    /\ nCmds = 0
    /\ nTicks = 0
    /\ roll = Zero
    /\ pitch = Zero
    /\ yaw = Zero
    /\ gyroAngleZ = Zero
    /\ elapsedTime = Zero
    /\ debugAngle = NoAngle
    /\ sensor = AtRest
    /\ btIn = <<>>
    /\ sentCmds = <<>>

\* ------------------------------------------------------------------ Init
\* The host after construction, nothing connected.
HostInit ==
    /\ port = NoPort
    /\ parser = NoPort
    /\ isConnected = FALSE
    /\ currentPortPath = NoPath
    /\ hstate = [h \in Calls |-> "none"]
    /\ hpath = [h \in Calls |-> NoPath]
    /\ connPc = [c \in Calls |-> "unused"]
    /\ closeWaiter = [h \in Calls |-> NoWaiter]
    /\ micro = <<>>
    /\ serialPorts = [p \in Paths |-> NoRecord]
    /\ connectedEv = [h \in Calls |-> 0]
    /\ disconnectedEv = [h \in Calls |-> 0]
    /\ errorEv = 0
    /\ discCalls = 0
    /\ discDone = 0
    /\ quiet = FALSE
    /\ wsCount = [k \in Clients |-> [t \in MsgTypes |-> 0]]
    /\ clients = [k \in Clients |-> "new"]
    /\ wsFrames = [k \in Clients |-> <<>>]
    /\ nLines = 0
    /\ lastLine = NoLine
    /\ evCount = [e \in ParserEvents |-> 0]
    /\ lastParseError = NoLine
    /\ lastMessage = NoLine
    /\ frames = <<>>
    /\ sensorReadings = <<>>
    /\ insertLog = <<>>
    /\ storageUp = TRUE
    /\ n8nIsConnected = FALSE
    /\ recommendations = 0
    /\ unhandled = 0
    /\ written = [h \in Calls |-> <<>>]
    /\ deferred = [h \in Calls |-> <<>>]
    /\ sendLog = <<>>

Init ==
    /\ HostInit
    /\ DevInit
    /\ DashInit
    /\ StoreInit

\* ------------------------------------------------- SerialService.connect
\* The first connect() call not yet made.
NextCall(c) == connPc[c] = "unused" /\ \A d \in Calls : d < c => connPc[d] # "unused"

\* Lines 261-310: construct the SerialPort (ok = the constructor does not
\* throw), pipe the parser, attach the handlers and return the pending
\* promise; on a throw the catch block emits 'error' and returns false.
Create(c, ok) ==
    IF ok
    THEN /\ port' = c
         /\ parser' = c
         /\ hstate' = [hstate EXCEPT ![c] = "opening"]
         /\ connPc' = [connPc EXCEPT ![c] = "pending"]
         /\ errorEv' = errorEv
         /\ wsCount' = wsCount
    ELSE /\ errorEv' = errorEv + 1
         /\ wsCount' = Broadcast("error")
         /\ connPc' = [connPc EXCEPT ![c] = "returnedFalse"]
         /\ UNCHANGED <<port, parser, hstate>>

\* connect() that does not close the previous connection first.
ConnectWithoutDisconnect(c, path) ==
    /\ Idle
    /\ NextCall(c)
    /\ hpath' = [hpath EXCEPT ![c] = path]
    /\ \E ok \in BOOLEAN : Create(c, ok)
    /\ UNCHANGED <<isConnected, currentPortPath, closeWaiter, micro>>
    /\ UNCHANGED <<serialPorts, connectedEv, disconnectedEv, discCalls, discDone, quiet>>
    /\ UNCHANGED <<dataVars, cmdVars, extVars>>

\* connect(portPath): the synchronous part of the call.
Connect(c, path) ==
    /\ Idle
    /\ NextCall(c)
    /\ hpath' = [hpath EXCEPT ![c] = path]
    /\ IF isConnected
       THEN \* await this.disconnect()
            /\ connPc' = [connPc EXCEPT ![c] = "awaitDisconnect"]
            /\ IF isOpen(port)
               THEN /\ hstate' = [hstate EXCEPT ![port] = "closing"]
                    /\ closeWaiter' = [closeWaiter EXCEPT ![port] = c]
                    /\ UNCHANGED <<port, parser, isConnected, currentPortPath, micro>>
               ELSE /\ port' = NoPort
                    /\ parser' = NoPort
                    /\ isConnected' = FALSE
                    /\ currentPortPath' = NoPath
                    /\ micro' = Append(micro, [k |-> "create", h |-> c])
                    /\ UNCHANGED <<hstate, closeWaiter>>
            /\ UNCHANGED <<errorEv, wsCount>>
       ELSE /\ \E ok \in BOOLEAN : Create(c, ok)
            /\ UNCHANGED <<isConnected, currentPortPath, closeWaiter, micro>>
    /\ UNCHANGED <<serialPorts, connectedEv, disconnectedEv, discCalls, discDone, quiet>>
    /\ UNCHANGED <<dataVars, cmdVars, extVars>>

\* connect() resumes after the awaited disconnect() has resolved.
ConnectCreate(c) ==
    /\ micro # <<>>
    /\ Head(micro) = [k |-> "create", h |-> c]
    /\ micro' = Tail(micro)
    /\ \E ok \in BOOLEAN : Create(c, ok)
    /\ UNCHANGED <<isConnected, currentPortPath, hpath, closeWaiter, serialPorts,
                   connectedEv, disconnectedEv, discCalls, discDone, quiet>>
    /\ UNCHANGED <<dataVars, cmdVars, extVars>>

\* The operating system holds an exclusive lock on an open device.
Locked(h) == \E g \in Calls : g # h /\ hpath[g] = hpath[h] /\ hstate[g] \in {"open", "closing"}

\* The commands of the device protocol (lines 419-437).
Commands == {"STOP_SESSION", "GET_STATUS"}

\* command + '\n' (line 408), as the bytes handed to port.write.
Terminated(cmd) == <<cmd, "\n">>

\* The bytes of the write() calls q, given by their place in sendLog, in
\* the order a SerialPort object writes them once it is open.
RECURSIVE Flush(_)
Flush(q) == IF q = <<>> THEN <<>>
            ELSE Terminated(sendLog[Head(q)].cmd) \o Flush(Tail(q))

\* port.on('open'), up to its first await: lines 274-284.  A SerialPort
\* object that opens first writes what write() handed it while it was not open.
OpenEvent(h) ==
    /\ Idle
    /\ hstate[h] = "opening"
    /\ ~Locked(h)
    /\ hstate' = [hstate EXCEPT ![h] = "open"]
    /\ isConnected' = TRUE
    /\ currentPortPath' = hpath[h]
    /\ serialPorts' = createOrUpdateSerialPort(serialPorts, hpath[h], TRUE)
    /\ micro' = Append(micro, [k |-> "setActive", h |-> h])
    /\ UNCHANGED <<port, parser, hpath, connPc, closeWaiter, connectedEv,
                   disconnectedEv, errorEv, discCalls, discDone, quiet>>
    /\ written' = [written EXCEPT ![h] = @ \o Flush(deferred[h])]
    /\ sendLog' = [i \in DOMAIN sendLog |->
                       IF \E j \in DOMAIN deferred[h] : deferred[h][j] = i
                       THEN [sendLog[i] EXCEPT !.result = "true"]
                       ELSE sendLog[i]]
    /\ deferred' = [deferred EXCEPT ![h] = <<>>]
    /\ UNCHANGED <<wsCount, dataVars, extVars>>

\* port.on('open'), line 286: await storage.setActiveSerialPort(portPath).
OpenSetActive(h) ==
    /\ micro # <<>>
    /\ Head(micro) = [k |-> "setActive", h |-> h]
    /\ serialPorts' = setActiveSerialPort(serialPorts, hpath[h])
    /\ micro' = Append(Tail(micro), [k |-> "emitConnected", h |-> h])
    /\ UNCHANGED <<port, parser, isConnected, currentPortPath, hstate, hpath, connPc,
                   closeWaiter, connectedEv, disconnectedEv, errorEv, discCalls,
                   discDone, quiet>>
    /\ UNCHANGED <<wsCount, dataVars, cmdVars, extVars>>

\* port.on('open'), lines 288-289: emit 'connected', resolve(true).
OpenEmitConnected(h) ==
    /\ micro # <<>>
    /\ Head(micro) = [k |-> "emitConnected", h |-> h]
    /\ micro' = Tail(micro)
    /\ connectedEv' = [connectedEv EXCEPT ![h] = @ + 1]
    /\ connPc' = [connPc EXCEPT ![h] = IF @ = "pending" THEN "resolved" ELSE @]
    /\ quiet' = FALSE
    /\ UNCHANGED <<port, parser, isConnected, currentPortPath, hstate, hpath,
                   closeWaiter, serialPorts, disconnectedEv, errorEv, discCalls,
                   discDone>>
    /\ wsCount' = Broadcast("arduino_connected")
    /\ UNCHANGED <<dataVars, cmdVars, extVars>>

\* port.on('error'), lines 292-296: the open failed.
ErrorEvent(h) ==
    /\ Idle
    /\ hstate[h] = "opening"
    /\ hstate' = [hstate EXCEPT ![h] = "failed"]
    /\ errorEv' = errorEv + 1
    /\ connPc' = [connPc EXCEPT ![h] = IF @ = "pending" THEN "rejected" ELSE @]
    /\ UNCHANGED <<port, parser, isConnected, currentPortPath, hpath, closeWaiter,
                   micro, serialPorts, connectedEv, disconnectedEv, discCalls,
                   discDone, quiet>>
    /\ wsCount' = Broadcast("error")
    /\ UNCHANGED <<dataVars, cmdVars, extVars>>

\* port.on('close') after the link dropped (device unplugged): lines 298-303.
LinkClose(h) ==
    /\ Idle
    /\ hstate[h] = "open"
    /\ hstate' = [hstate EXCEPT ![h] = "closed"]
    /\ isConnected' = FALSE
    /\ currentPortPath' = NoPath
    /\ disconnectedEv' = [disconnectedEv EXCEPT ![h] = @ + 1]
    /\ UNCHANGED <<port, parser, hpath, connPc, closeWaiter, micro, serialPorts,
                   connectedEv, errorEv, discCalls, discDone, quiet>>
    /\ wsCount' = Broadcast("arduino_disconnected")
    /\ UNCHANGED <<dataVars, cmdVars, extVars>>

\* getConnectionStatus(), lines 439-444.
getConnectionStatus == [connected |-> isConnected, port |-> currentPortPath]

\* ---------------------------------------------- SerialService.disconnect
\* disconnect() whose else branch leaves isConnected as it was.
DisconnectKeepsFlag ==
    /\ Idle
    /\ discCalls < MaxDisc
    /\ discCalls' = discCalls + 1
    /\ IF isOpen(port)
       THEN /\ hstate' = [hstate EXCEPT ![port] = "closing"]
            /\ closeWaiter' = [closeWaiter EXCEPT ![port] = ApiCaller]
            /\ UNCHANGED <<port, parser, isConnected, currentPortPath, discDone, quiet>>
       ELSE /\ port' = NoPort
            /\ parser' = NoPort
            /\ currentPortPath' = NoPath
            /\ discDone' = discDone + 1
            /\ quiet' = TRUE
            /\ UNCHANGED <<isConnected, hstate, closeWaiter>>
    /\ UNCHANGED <<hpath, connPc, micro, serialPorts, connectedEv, disconnectedEv,
                   errorEv>>
    /\ UNCHANGED <<wsCount, dataVars, cmdVars, extVars>>

\* disconnect() called by an API caller (POST /api/serial/disconnect).
Disconnect ==
    /\ Idle
    /\ discCalls < MaxDisc
    /\ discCalls' = discCalls + 1
    /\ IF isOpen(port)
       THEN /\ hstate' = [hstate EXCEPT ![port] = "closing"]
            /\ closeWaiter' = [closeWaiter EXCEPT ![port] = ApiCaller]
            /\ UNCHANGED <<port, parser, isConnected, currentPortPath, discDone, quiet>>
       ELSE /\ port' = NoPort
            /\ parser' = NoPort
            /\ isConnected' = FALSE
            /\ currentPortPath' = NoPath
            /\ discDone' = discDone + 1
            /\ quiet' = TRUE
            /\ UNCHANGED <<hstate, closeWaiter>>
    /\ UNCHANGED <<hpath, connPc, micro, serialPorts, connectedEv, disconnectedEv,
                   errorEv>>
    /\ UNCHANGED <<wsCount, dataVars, cmdVars, extVars>>

\* port.close() completes: the 'close' handler (lines 298-303) runs, then the
\* callback given to close() (lines 321-327) resolves the waiting disconnect().
CloseComplete(h) ==
    /\ Idle
    /\ hstate[h] = "closing"
    /\ hstate' = [hstate EXCEPT ![h] = "closed"]
    /\ disconnectedEv' = [disconnectedEv EXCEPT ![h] = @ + 1]
    /\ port' = NoPort
    /\ parser' = NoPort
    /\ isConnected' = FALSE
    /\ currentPortPath' = NoPath
    /\ closeWaiter' = [closeWaiter EXCEPT ![h] = NoWaiter]
    /\ IF closeWaiter[h] = ApiCaller
       THEN /\ discDone' = discDone + 1
            /\ quiet' = TRUE
            /\ micro' = micro
       ELSE /\ micro' = Append(micro, [k |-> "create", h |-> closeWaiter[h]])
            /\ UNCHANGED <<discDone, quiet>>
    /\ UNCHANGED <<hpath, connPc, serialPorts, connectedEv, errorEv, discCalls>>
    /\ wsCount' = Broadcast("arduino_disconnected")
    /\ UNCHANGED <<dataVars, cmdVars, extVars>>

\* -------------------------------------------- SerialService.sendCommand
SendResults == {"false", "true", "pending"}

\* sendCommand(command), lines 395-417.  port.write on an open SerialPort
\* object writes the bytes and calls back (ok = without an error); on one
\* that is not open it holds them until the object emits 'open'.
SendCommand(cmd) ==
    /\ Idle
    /\ Len(sendLog) < MaxCmds
    /\ IF port = NoPort \/ ~isConnected
       THEN /\ sendLog' = Append(sendLog, [cmd |-> cmd, result |-> "false"])
            /\ UNCHANGED <<written, deferred>>
       ELSE IF isOpen(port)
       THEN \E ok \in BOOLEAN :
                IF ok
                THEN /\ written' = [written EXCEPT ![port] = @ \o Terminated(cmd)]
                     /\ sendLog' = Append(sendLog, [cmd |-> cmd, result |-> "true"])
                     /\ UNCHANGED deferred
                ELSE /\ sendLog' = Append(sendLog, [cmd |-> cmd, result |-> "false"])
                     /\ UNCHANGED <<written, deferred>>
       ELSE /\ deferred' = [deferred EXCEPT ![port] = Append(@, Len(sendLog) + 1)]
            /\ sendLog' = Append(sendLog, [cmd |-> cmd, result |-> "pending"])
            /\ UNCHANGED written
    /\ UNCHANGED <<transportVars, wsCount, dataVars, extVars>>

\* ------------------------------------- parser 'data' -> handleArduinoData
\* A variant that keeps a reading only while somebody is watching.
storeSensorReadingWhenWatched(line) ==
    IF \E k \in Clients : clients[k] = "open"
    THEN Append(sensorReadings, [sessionId |-> line.rest.sid,
                                 exerciseType |-> line.rest.et2 \div 2])
    ELSE sensorReadings

\* storeSensorReading, lines 379-391: the reading of a valid frame,
\* inserted unless createSensorReading throws.
storeSensorReading(line) ==
    IF storageUp
    THEN Append(sensorReadings, [sessionId |-> line.rest.sid,
                                 exerciseType |-> line.rest.et2 \div 2])
    ELSE sensorReadings

\* A variant that gives up inserting once an insert has failed.
createSensorReadingUntilFailure ==
    IF insertLog # <<>> /\ insertLog[Len(insertLog)] = "failed" THEN insertLog
    ELSE Append(insertLog, IF storageUp THEN "ok" ELSE "failed")

\* storeSensorReading, line 381: one call of createSensorReading; what it
\* throws is caught and logged at lines 390-392.
createSensorReading == Append(insertLog, IF storageUp THEN "ok" ELSE "failed")

\* One line arrives on the parser piped from handle h (lines 305-309) and
\* handleArduinoData runs to its end.  For a valid frame that is: emit
\* 'kneeData', whose listener in routes.ts starts the analytics POST and
\* suspends on it, then storeSensorReading inserts the reading.
Receive(h, line) ==
    /\ Idle
    /\ hstate[h] = "open"
    /\ nLines < MaxLines
    /\ nLines' = nLines + 1
    /\ lastLine' = line
    /\ LET ev == handleArduinoData(line) IN
        /\ evCount' = [evCount EXCEPT ![ev] = @ + 1]
        /\ lastParseError' = IF ev = "parseError" THEN line ELSE lastParseError
        /\ lastMessage' = IF ev = "message" THEN line ELSE lastMessage
        /\ IF ev = "kneeData"
           THEN /\ frames' = Append(frames, [h |-> h, sessionId |-> line.rest.sid,
                                             exerciseType |-> line.rest.et2 \div 2,
                                             fetch |-> "inflight"])
                /\ sensorReadings' = storeSensorReading(line)
                /\ insertLog' = createSensorReading
           ELSE UNCHANGED <<frames, sensorReadings, insertLog>>
        /\ wsCount' = IF ev = "sessionStarted" THEN Broadcast("session_started")
                      ELSE IF ev = "sessionStopped" THEN Broadcast("session_stopped")
                      ELSE IF ev = "calibrationComplete"
                           THEN Broadcast("calibration_complete")
                      ELSE wsCount
    /\ UNCHANGED <<cmdVars, extVars>>
    /\ UNCHANGED <<transportVars, clients, wsFrames, n8nIsConnected, recommendations,
                   unhandled, storageUp>>

\* ------------------- N8nService.sendSensorData and the kneeData listener
FetchOutcomes == {"ok", "okWithRecommendations", "notOk", "networkError"}

\* The analytics POST of frame f completes.  On a 2xx response sendSensorData
\* returns and the listener broadcasts the frame.  Otherwise sendSensorData
\* emits 'error' on the N8nService, which has no 'error' listener: the emit
\* throws, the catch block emits again and throws out of sendSensorData, and
\* the listener's promise rejects before its broadcast.
FetchDone(f, outcome) ==
    /\ Idle
    /\ f \in DOMAIN frames
    /\ frames[f].fetch = "inflight"
    /\ IF outcome \in {"ok", "okWithRecommendations"}
       THEN /\ frames' = [frames EXCEPT ![f].fetch = "ok"]
            /\ n8nIsConnected' = TRUE
            /\ IF outcome = "okWithRecommendations"
               THEN /\ recommendations' = recommendations + 1
                    /\ wsCount' = Broadcast("recommendations_received")
               ELSE UNCHANGED <<recommendations, wsCount>>
            /\ wsFrames' = BroadcastFrame(f)
            /\ UNCHANGED unhandled
       ELSE /\ frames' = [frames EXCEPT ![f].fetch = "failed"]
            /\ n8nIsConnected' = FALSE
            /\ unhandled' = unhandled + 1
            /\ UNCHANGED <<recommendations, wsCount, wsFrames>>
    /\ UNCHANGED <<cmdVars, extVars>>
    /\ UNCHANGED <<transportVars, clients, nLines, lastLine, evCount, lastParseError,
                   lastMessage,
                   sensorReadings, insertLog, storageUp>>

\* --------------------------------------------------- wss.on('connection')
WsConnect(k) ==
    /\ Idle
    /\ clients[k] = "new"
    /\ clients' = [clients EXCEPT ![k] = "open"]
    /\ wsCount' = [wsCount EXCEPT ![k]["status"] = @ + 1]
    /\ UNCHANGED <<cmdVars, extVars>>
    /\ UNCHANGED <<transportVars, wsFrames, nLines, lastLine, evCount, lastParseError,
                   lastMessage,
                   frames, sensorReadings, insertLog, storageUp, n8nIsConnected,
                   recommendations, unhandled>>

\* A subscriber's socket closes.
WsClose(k) ==
    /\ Idle
    /\ clients[k] = "open"
    /\ clients' = [clients EXCEPT ![k] = "closed"]
    /\ UNCHANGED <<cmdVars, extVars>>
    /\ UNCHANGED <<transportVars, wsCount, wsFrames, nLines, lastLine, evCount,
                   lastParseError, lastMessage, frames, sensorReadings, insertLog,
                   storageUp, n8nIsConnected, recommendations, unhandled>>

\* ------------------------------------------------------- specifications
\* Lines the link delivers in the transport specification.
LinkLines == {Frame(1, 1)}

\* Lines the link delivers in the pipeline specification.
PipeLines ==
    {Frame(0, 1), Frame(2, 2), Frame(3, 1), Frame(0 - 1, 1),
     Line("KNEE_DATA:", Rest("json", FieldNames, 3, 1)),
     FrameWithout("sessionId"), FrameWithout("temperature"), FrameGarbage,
     Line("SESSION_STARTED:", Rest("text", {}, 0, 1)),
     Line("SESSION_STOPPED", EmptyRest),
     Line("CALIBRATION_COMPLETE", EmptyRest),
     Line("SYSTEM_READY", EmptyRest),
     Line("STATUS:", Rest("text", {}, 0, 1)),
     Line("CALIBRATING", EmptyRest),
     Line("EXERCISE_SET:", Rest("text", {}, 0, 1))}

\* The transport: every interleaving of connect(), disconnect(), the events
\* of the serial handles and the lines they deliver.
Next ==
    \/ \E c \in 1..MaxCalls, p \in Paths : Connect(c, p)
    \/ \E c \in Calls : ConnectCreate(c)
    \/ \E h \in Calls : OpenEvent(h)
    \/ \E h \in Calls : OpenSetActive(h)
    \/ \E h \in Calls : OpenEmitConnected(h)
    \/ \E h \in Calls : ErrorEvent(h)
    \/ \E h \in Calls : LinkClose(h)
    \/ Disconnect
    \/ \E h \in Calls : CloseComplete(h)
    \/ \E h \in Calls, l \in LinkLines : Receive(h, l)

Spec == Init /\ [][Next]_vars

\* The pipeline behind an open link: connect(1) has succeeded on handle 1.
PipeInit ==
    /\ port = 1
    /\ parser = 1
    /\ isConnected = TRUE
    /\ currentPortPath = 1
    /\ hstate = [h \in Calls |-> IF h = 1 THEN "open" ELSE "none"]
    /\ hpath = [h \in Calls |-> IF h = 1 THEN 1 ELSE NoPath]
    /\ connPc = [c \in Calls |-> IF c = 1 THEN "resolved" ELSE "unused"]
    /\ closeWaiter = [h \in Calls |-> NoWaiter]
    /\ micro = <<>>
    /\ serialPorts = [p \in Paths |-> IF p = 1 THEN [present |-> TRUE, isActive |-> TRUE]
                                      ELSE NoRecord]
    /\ connectedEv = [h \in Calls |-> IF h = 1 THEN 1 ELSE 0]
    /\ disconnectedEv = [h \in Calls |-> 0]
    /\ errorEv = 0
    /\ discCalls = 0
    /\ discDone = 0
    /\ quiet = FALSE
    /\ wsCount = [k \in Clients |-> [t \in MsgTypes |-> 0]]
    /\ clients = [k \in Clients |-> "new"]
    /\ wsFrames = [k \in Clients |-> <<>>]
    /\ nLines = 0
    /\ lastLine = NoLine
    /\ evCount = [e \in ParserEvents |-> 0]
    /\ lastParseError = NoLine
    /\ lastMessage = NoLine
    /\ frames = <<>>
    /\ sensorReadings = <<>>
    /\ insertLog = <<>>
    /\ storageUp = TRUE
    /\ n8nIsConnected = FALSE
    /\ recommendations = 0
    /\ unhandled = 0
    /\ written = [h \in Calls |-> <<>>]
    /\ deferred = [h \in Calls |-> <<>>]
    /\ sendLog = <<>>
    /\ DevInit
    /\ DashInit
    /\ StoreInit

PipeNext ==
    \/ \E h \in Calls, l \in PipeLines : Receive(h, l)
    \/ \E f \in 1..MaxLines, o \in FetchOutcomes : FetchDone(f, o)
    \/ \E k \in Clients : WsConnect(k)
    \/ \E k \in Clients : WsClose(k)

PipeSpec == PipeInit /\ [][PipeNext]_vars

\* The store starts refusing inserts (a lost database connection), or
\* accepts them again.
StorageFails ==
    /\ Idle
    /\ storageUp
    /\ storageUp' = FALSE
    /\ UNCHANGED <<cmdVars, extVars>>
    /\ UNCHANGED <<transportVars, wsCount, clients, wsFrames, nLines, lastLine,
                   evCount, lastParseError, lastMessage, frames, sensorReadings,
                   insertLog, n8nIsConnected, recommendations, unhandled>>

StorageRecovers ==
    /\ Idle
    /\ ~storageUp
    /\ storageUp' = TRUE
    /\ UNCHANGED <<cmdVars, extVars>>
    /\ UNCHANGED <<transportVars, wsCount, clients, wsFrames, nLines, lastLine,
                   evCount, lastParseError, lastMessage, frames, sensorReadings,
                   insertLog, n8nIsConnected, recommendations, unhandled>>

\* Ingestion against a store that comes and goes.
IngestNext ==
    \/ \E line \in PipeLines : Receive(1, line)
    \/ \E f \in 1..MaxLines, outcome \in FetchOutcomes : FetchDone(f, outcome)
    \/ StorageFails
    \/ StorageRecovers

IngestSpec == PipeInit /\ [][IngestNext]_vars

\* No connect() or disconnect() call is still pending.
Settled ==
    /\ Idle
    /\ \A c \in Calls : connPc[c] \notin {"awaitDisconnect", "pending"}
    /\ discDone = discCalls

\* The transport used in succession: a caller awaits each connect() and
\* disconnect() before making the next call.
SeqNext ==
    \/ Settled /\ \E c \in 1..MaxSeqCalls, p \in Paths : Connect(c, p)
    \/ \E c \in Calls : ConnectCreate(c)
    \/ \E h \in Calls : OpenEvent(h)
    \/ \E h \in Calls : OpenSetActive(h)
    \/ \E h \in Calls : OpenEmitConnected(h)
    \/ \E h \in Calls : ErrorEvent(h)
    \/ \E h \in Calls : LinkClose(h)
    \/ Settled /\ Disconnect
    \/ \E h \in Calls : CloseComplete(h)

SeqSpec == Init /\ [][SeqNext]_vars

\* The fair transport: a queued microtask runs, a close() in progress
\* completes, an analytics POST ends (the HTTP client has its own timeout).
\* Nothing obliges the link to answer an open request.
Microtask ==
    \/ \E c \in Calls : ConnectCreate(c)
    \/ \E h \in Calls : OpenSetActive(h)
    \/ \E h \in Calls : OpenEmitConnected(h)

LinkNext ==
    \/ \E c \in 1..MaxCalls, p \in Paths : Connect(c, p)
    \/ Microtask
    \/ \E h \in Calls : OpenEvent(h)
    \/ \E h \in Calls : ErrorEvent(h)
    \/ \E h \in Calls : LinkClose(h)
    \/ Disconnect
    \/ \E h \in Calls : CloseComplete(h)

FairSpec ==
    /\ Init
    /\ [][LinkNext]_vars
    /\ WF_vars(Microtask)
    /\ \A h \in Calls : WF_vars(CloseComplete(h))

\* The transport with commands: sendCommand() called at any time between
\* the steps of connect() and disconnect().
CmdNext ==
    \/ LinkNext
    \/ \E cmd \in Commands : SendCommand(cmd)

CmdSpec == Init /\ [][CmdNext]_vars

\* ------------------------------------------------- the device firmware
\* A calibration that prints its first notice only when it ends.
CalibrateBeginSilent(pc) ==
    /\ offsets' = NoOffsets
    /\ btOut' = btOut
    /\ devPc' = pc

\* calibrateMPU6050() starts (lines 556-564): the notice, the offsets reset.
CalibrateBegin(pc) ==
    /\ offsets' = NoOffsets
    /\ btOut' = Append(btOut, Out("CALIBRATING", <<>>))
    /\ devPc' = pc

\* setup(), lines 482-516, up to the sampling loops of the calibration.
Setup ==
    /\ devPc = "boot"
    /\ CalibrateBegin("setup")
    /\ UNCHANGED <<sessionId, isRecording, exerciseType, calStep, nCmds, nTicks, estVars>>
    /\ UNCHANGED intakeVars
    /\ UNCHANGED <<hostVars, dashVars, storeVars>>

\* The bias of a channel that an earlier calibration can have measured.
SensorBias == {0, 1}

\* calibrateMPU6050(), lines 566-595: the first sampling loop has run and
\* the accelerometer offsets are the means of 200 readings of a sensor that
\* holds its pose; near-zero accelerations add nothing. The gyroscope
\* offsets are still zero.
CalibrateAccel ==
    /\ devPc \in {"setup", "calibrate"}
    /\ calStep = 0
    /\ offsets' = [offsets EXCEPT
                       !.AccErrorX = IF sensor.freeFall THEN 0 ELSE sensor.accX,
                       !.AccErrorY = IF sensor.freeFall THEN 0 ELSE sensor.accY]
    /\ calStep' = 1
    /\ UNCHANGED <<sessionId, isRecording, exerciseType, devPc, btOut, nCmds, nTicks>>
    /\ UNCHANGED <<estVars, intakeVars>>
    /\ UNCHANGED <<hostVars, dashVars, storeVars>>

\* calibrateMPU6050() ends (lines 597-623): the second sampling loop has
\* run, the gyroscope offsets are the means it measured; setup() then
\* prints SYSTEM_READY (line 522).
CalibrateEnd ==
    /\ devPc \in {"setup", "calibrate"}
    /\ calStep = 1
    /\ offsets' = [offsets EXCEPT !.GyroErrorX = sensor.gyroX,
                                  !.GyroErrorY = sensor.gyroY,
                                  !.GyroErrorZ = sensor.gyroZ]
    /\ calStep' = 0
    /\ btOut' = IF devPc = "setup"
                THEN btOut \o <<Out("CALIBRATION_COMPLETE", <<>>),
                                Out("SYSTEM_READY", <<>>)>>
                ELSE Append(btOut, Out("CALIBRATION_COMPLETE", <<>>))
    /\ devPc' = "loop"
    /\ UNCHANGED <<sessionId, isRecording, exerciseType, nCmds, nTicks, estVars>>
    /\ UNCHANGED intakeVars
    /\ UNCHANGED <<hostVars, dashVars, storeVars>>

\* The text of the status line, lines 810-811.
StatusText(rec, sid, et) ==
    <<IF rec THEN "RECORDING" ELSE "IDLE">> \o <<":">> \o sid \o <<":">> \o String(et)

\* START_SESSION that a device already recording refuses.
StartSessionUnlessRecording(id) ==
    /\ sessionId' = IF isRecording THEN sessionId ELSE id
    /\ isRecording' = TRUE
    /\ btOut' = IF isRecording THEN btOut
                ELSE Append(btOut, Out("SESSION_STARTED:", id))
    /\ UNCHANGED <<exerciseType, offsets, devPc>>

\* Lines 789-794: START_SESSION:<id>.
StartSession(id) ==
    /\ sessionId' = id
    /\ isRecording' = TRUE
    /\ btOut' = Append(btOut, Out("SESSION_STARTED:", id))
    /\ UNCHANGED <<exerciseType, offsets, devPc>>

\* STOP_SESSION that keeps the session id.
StopSessionKeepsId ==
    /\ isRecording' = FALSE
    /\ btOut' = Append(btOut, Out("SESSION_STOPPED", <<>>))
    /\ UNCHANGED <<sessionId, exerciseType, offsets, devPc>>

\* Lines 795-800: STOP_SESSION.
StopSession ==
    /\ isRecording' = FALSE
    /\ sessionId' = <<>>
    /\ btOut' = Append(btOut, Out("SESSION_STOPPED", <<>>))
    /\ UNCHANGED <<exerciseType, offsets, devPc>>

\* SET_EXERCISE that ends the session in progress.
SetExerciseEndsSession(arg) ==
    /\ exerciseType' = ToInt16(toInt(arg))
    /\ isRecording' = FALSE
    /\ sessionId' = <<>>
    /\ btOut' = Append(btOut, Out("EXERCISE_SET:", String(exerciseType')))
    /\ UNCHANGED <<offsets, devPc>>

\* Lines 801-805: SET_EXERCISE:<type>.
SetExercise(arg) ==
    /\ exerciseType' = ToInt16(toInt(arg))
    /\ btOut' = Append(btOut, Out("EXERCISE_SET:", String(exerciseType')))
    /\ UNCHANGED <<sessionId, isRecording, offsets, devPc>>

\* Lines 809-812: GET_STATUS.
GetStatus ==
    /\ btOut' = Append(btOut, Out("STATUS:",
                                  StatusText(isRecording, sessionId, exerciseType)))
    /\ UNCHANGED <<sessionId, isRecording, exerciseType, offsets, devPc>>

\* A variant that answers a command it does not know.
IgnoreCommandWithNotice ==
    /\ btOut' = Append(btOut, Out("UNKNOWN_COMMAND", <<>>))
    /\ UNCHANGED <<sessionId, isRecording, exerciseType, offsets, devPc>>

\* handleBluetoothCommand, lines 789-812: the chain of tests has no final
\* else, a command that passes none of them does nothing.
IgnoreCommand ==
    UNCHANGED <<sessionId, isRecording, exerciseType, offsets, devPc, btOut>>

\* loop() finds a command on the Bluetooth link (lines 527-531) and
\* handleBluetoothCommand (lines 788-813) handles it; a CALIBRATE command
\* enters calibrateMPU6050().
handleBluetoothCommand(command) ==
    /\ devPc = "loop"
    /\ nCmds < MaxDevCmds
    /\ nCmds' = nCmds + 1
    /\ IF command.head = "START_SESSION:" THEN StartSession(command.arg)
       ELSE IF command = Cmd("STOP_SESSION", <<>>) THEN StopSession
       ELSE IF command.head = "SET_EXERCISE:" THEN SetExercise(command.arg)
       ELSE IF command = Cmd("CALIBRATE", <<>>)
       THEN /\ CalibrateBegin("calibrate")
            /\ UNCHANGED <<sessionId, isRecording, exerciseType>>
       ELSE IF command = Cmd("GET_STATUS", <<>>) THEN GetStatus
       ELSE IgnoreCommand
    /\ UNCHANGED <<calStep, nTicks, estVars, sentCmds>>
    /\ UNCHANGED <<hostVars, dashVars, storeVars>>

\* The text of a telemetry frame (lines 746-785), as far as the session
\* state goes into it.
FrameText(sid, et) ==
    <<"{sessionId:">> \o sid \o <<",exerciseType:">> \o String(et) \o <<",...}">>

\* A variant that takes the time as the clock gives it.
elapsedSecondsUnclamped(ms) == Frac(ms, 1000)

\* calculateAngles(), lines 644-650: the seconds since the previous tick,
\* one millisecond when the clock gives nothing or less.
elapsedSeconds(ms) == IF ms <= 0 THEN Frac(1, 1000) ELSE Frac(ms, 1000)

\* calculateAngles(), lines 642-708, for the reading in sensor. The angles
\* gyroAngleX and gyroAngleY are written and never read. No operand is
\* NaN, the tests of lines 690-702 change nothing.
calculateAngles ==
    LET dt == elapsedSeconds(sensor.elapsed)
        accAngleX == IF sensor.freeFall THEN Zero
                     ELSE Num(sensor.accX - offsets.AccErrorX)
        accAngleY == IF sensor.freeFall THEN Zero
                     ELSE Num(sensor.accY - offsets.AccErrorY)
        gyroX == Num(sensor.gyroX - offsets.GyroErrorX)
        gyroY == Num(sensor.gyroY - offsets.GyroErrorY)
        gyroZ == Num(sensor.gyroZ - offsets.GyroErrorZ)
        newRoll == Add(Mul(alpha, Add(roll, Mul(gyroX, dt))),
                       Mul(Add(Num(1), Neg(alpha)), accAngleX))
        newPitch == Add(Mul(alpha, Add(pitch, Mul(gyroY, dt))),
                        Mul(Add(Num(1), Neg(alpha)), accAngleY))
    IN /\ elapsedTime' = dt
       /\ gyroAngleZ' = Add(gyroAngleZ, Mul(gyroZ, dt))
       /\ roll' = constrain(newRoll, 0 - 180, 180)
       /\ pitch' = constrain(newPitch, 0 - 180, 180)
       /\ yaw' = constrain(gyroAngleZ', 0 - 180, 180)

\* A variant that takes the lateral angle from the pitch too.
getKneeAngleOfPitch(mode, r, p) ==
    constrain(IF mode = 0 THEN Add(Num(180), Neg(abs(p))) ELSE abs(p), 0, 160)

\* getKneeAngle(), lines 710-742, for exerciseType = mode, roll = r and
\* pitch = p.
getKneeAngle(mode, r, p) ==
    LET kneeAngle == CASE mode = 0 -> Add(Num(180), Neg(abs(p)))
                       [] mode = 1 -> abs(p)
                       [] mode = 2 -> abs(r)
                       [] OTHER -> abs(p)
    IN constrain(kneeAngle, 0, 160)

\* printAngleData(), lines 815-826: the knee angle of the new estimate, on
\* the debugging port.
printAngleData == debugAngle' = getKneeAngle(exerciseType, roll', pitch')

\* A telemetry line for session sid in mode et.
KneeData(sid, et) == Out("KNEE_DATA:", FrameText(sid, et))

\* A variant that sends every frame twice.
sendKneeAngleDataTwice ==
    btOut' = btOut \o <<KneeData(sessionId, exerciseType), KneeData(sessionId, exerciseType)>>

\* sendKneeAngleData(), lines 744-786: one KNEE_DATA line with the session id
\* and the exercise mode of the moment.
sendKneeAngleData ==
    btOut' = Append(btOut, KneeData(sessionId, exerciseType))

\* A variant driven by a timer interrupt: it samples whatever the main
\* program is doing.
TickOnTimer ==
    /\ devPc # "boot"
    /\ nTicks < MaxTicks
    /\ nTicks' = nTicks + 1
    /\ calculateAngles
    /\ IF isRecording THEN sendKneeAngleData ELSE UNCHANGED btOut
    /\ printAngleData
    /\ UNCHANGED <<sessionId, isRecording, exerciseType, offsets, calStep, devPc, nCmds>>
    /\ UNCHANGED <<sensor, intakeVars>>
    /\ UNCHANGED <<hostVars, dashVars, storeVars>>

\* loop(), lines 533-552: the sampling interval has elapsed. loop() runs
\* only between two commands, never inside calibrateMPU6050().
Tick ==
    /\ devPc = "loop"
    /\ nTicks < MaxTicks
    /\ nTicks' = nTicks + 1
    /\ calculateAngles
    /\ IF isRecording THEN sendKneeAngleData ELSE UNCHANGED btOut
    /\ printAngleData
    /\ UNCHANGED <<sessionId, isRecording, exerciseType, offsets, calStep, devPc, nCmds>>
    /\ UNCHANGED <<sensor, intakeVars>>
    /\ UNCHANGED <<hostVars, dashVars, storeVars>>

\* The commands the host sends (lines 419-437), with payloads of every
\* kind, and text that is no command.
DevIds == {<<"a">>, <<"b">>, <<"a", ":", "b">>, <<>>}

ModeTexts == {<<"0">>, <<"1">>, <<"2">>, <<"7">>, <<"x">>, <<"-", "1">>}

DevCommands ==
    {Cmd("START_SESSION:", id) : id \in DevIds}
    \cup {Cmd("SET_EXERCISE:", m) : m \in ModeTexts}
    \cup {Cmd("STOP_SESSION", <<>>), Cmd("CALIBRATE", <<>>), Cmd("GET_STATUS", <<>>),
          Cmd("STOP_SESSION", <<"x">>), Cmd("RESET", <<>>)}

DevNext ==
    \/ Setup
    \/ CalibrateAccel
    \/ CalibrateEnd
    \/ \E command \in DevCommands : handleBluetoothCommand(command) /\ UNCHANGED btIn
    \/ Tick

DevSpec == Init /\ [][DevNext]_vars

\* ------------------------------------------------ the command intake
\* The characters of a command as sendCommand writes them (line 407).
CommandLine(command) == <<command.head>> \o command.arg \o <<"\n">>

\* The commands the wrappers of lines 419-437 send.
HostCommands ==
    {Cmd("START_SESSION:", <<"a">>), Cmd("STOP_SESSION", <<>>),
     Cmd("SET_EXERCISE:", <<"1">>), Cmd("CALIBRATE", <<>>), Cmd("GET_STATUS", <<>>)}

\* The line of a command arrives in the receive buffer of the Bluetooth
\* port, which is open from line 484 on, whatever the firmware is doing.
Arrive(command) ==
    /\ devPc # "boot"
    /\ Len(sentCmds) < MaxSent
    /\ sentCmds' = Append(sentCmds, command)
    /\ btIn' = btIn \o CommandLine(command)
    /\ UNCHANGED <<sessionId, isRecording, exerciseType, offsets, calStep, devPc, btOut,
                   nCmds, nTicks, estVars>>
    /\ UNCHANGED <<hostVars, dashVars, storeVars>>

\* String::trim(): the text without the white space at its two ends.
RECURSIVE trim(_)
trim(text) ==
    IF text = <<>> THEN text
    ELSE IF Head(text) = "\n" THEN trim(Tail(text))
    ELSE IF text[Len(text)] = "\n" THEN trim(SubSeq(text, 1, Len(text) - 1))
    ELSE text

\* The text read, as the keyword it starts with and what follows.
AsCommand(text) == IF text = <<>> THEN Cmd("", <<>>) ELSE Cmd(Head(text), Tail(text))

\* Stream::readString(), line 528: every character received so far (and
\* within the timeout), newlines included; the buffer is left empty.
readString == btIn

\* loop(), lines 527-531: characters are available; read, trim, handle.
Intake ==
    /\ btIn # <<>>
    /\ btIn' = <<>>
    /\ handleBluetoothCommand(AsCommand(trim(readString)))

IntakeNext ==
    \/ Setup
    \/ CalibrateAccel
    \/ CalibrateEnd
    \/ \E command \in HostCommands : Arrive(command)
    \/ Intake

IntakeSpec == Init /\ [][IntakeNext]_vars

\* ------------------------------------------------ the estimator alone
\* The wearer moves: the sensor and the clock give another reading.
Move(s) ==
    /\ s # sensor
    /\ sensor' = s
    /\ UNCHANGED <<sessionId, isRecording, exerciseType, offsets, calStep, devPc, btOut,
                   nCmds, nTicks>>
    /\ UNCHANGED <<roll, pitch, yaw, gyroAngleZ, elapsedTime, debugAngle, intakeVars>>
    /\ UNCHANGED <<hostVars, dashVars, storeVars>>

\* The exercise modes a SET_EXERCISE command can set.
Modes == {ToInt16(toInt(m)) : m \in ModeTexts}

\* The device after setup() and, for a mode other than 0, one SET_EXERCISE
\* command, the sensor in any pose.
EstInit ==
    /\ HostInit
    /\ DashInit
    /\ StoreInit
    /\ sessionId = <<>>
    /\ isRecording = FALSE
    /\ exerciseType \in Modes
    /\ \E a \in SensorBias, g \in SensorBias : offsets = Offsets(a, a, g, g, g)
    /\ calStep = 0
    /\ devPc = "loop"
    /\ btOut = <<Out("CALIBRATING", <<>>), Out("CALIBRATION_COMPLETE", <<>>),
                 Out("SYSTEM_READY", <<>>)>>
               \o IF exerciseType = 0 THEN <<>>
                  ELSE <<Out("EXERCISE_SET:", String(exerciseType))>>
    /\ nCmds = IF exerciseType = 0 THEN 0 ELSE 1
    /\ nTicks = 0
    /\ roll = Zero
    /\ pitch = Zero
    /\ yaw = Zero
    /\ gyroAngleZ = Zero
    /\ elapsedTime = Zero
    /\ debugAngle = NoAngle
    /\ sensor \in Samples
    /\ btIn = <<>>
    /\ sentCmds = <<>>

EstNext ==
    \/ \E s \in Samples : Move(s)
    \/ Tick

EstSpec == EstInit /\ [][EstNext]_vars

\* ------------------------------------------------------- the Dashboard
\* A WebSocket message as the Dashboard reads it: its type, and of its data
\* the session id, the joint angle and the two connection flags.
Msg(type, sid, angle, arduino, n8n) ==
    [type |-> type, sessionId |-> sid, kneeAngle |-> angle,
     arduino |-> arduino, n8n |-> n8n]

DashMessages ==
    {Msg("status", NoSession, 0, a, n) : a \in BOOLEAN, n \in BOOLEAN}
    \cup {Msg(t, NoSession, 0, FALSE, FALSE) :
            t \in {"arduino_connected", "arduino_disconnected", "session_stopped",
                   "error", "calibration_complete"}}
    \cup {Msg("session_started", sid, 0, FALSE, FALSE) : sid \in SessionIds}
    \cup {Msg("knee_data", sid, x, FALSE, FALSE) : sid \in SessionIds, x \in Angles}

\* A running mean that gives the new reading the weight of all the others.
NextAvgUnweighted(avg, n, x) == Over(Plus(avg, x), 2)

\* Line 85: (prev.avgAngle * prev.readingCount + data.kneeAngle) / readingCount.
NextAvg(avg, n, x) == Over(Plus(Times(avg, n), x), n + 1)

\* updateSessionStats(data), lines 76-100 (duration and qualityScore, which
\* nothing else reads, are left out).
updateSessionStats(data) ==
    IF sessionStartTime = NoTime \/ ~sessionStats.present
    THEN UNCHANGED <<sessionStats, accepted>>
    ELSE /\ sessionStats' = Stats(sessionStats.readingCount + 1,
                                  Max(sessionStats.maxAngle, data.kneeAngle),
                                  NextAvg(sessionStats.avgAngle,
                                          sessionStats.readingCount, data.kneeAngle))
         /\ accepted' = Append(accepted, data.kneeAngle)

\* Lines 53-60 and 113-120: a session starts with empty aggregates.
BeginSession(sid) ==
    /\ currentSessionId' = sid
    /\ sessionStartTime' = clock'
    /\ sessionStats' = Stats(0, 0, Zero)
    /\ accepted' = <<>>

\* Lines 64-66, 106-108 and 124-126: no session.
EndSession ==
    /\ currentSessionId' = NoSession
    /\ sessionStartTime' = NoTime
    /\ sessionStats' = NoStats
    /\ accepted' = <<>>

\* Lines 41-44: case 'arduino_disconnected'.
OnDisconnected ==
    /\ dashConnected' = FALSE
    /\ latestData' = NoData
    /\ UNCHANGED <<n8nConnected, currentSessionId, sessionStartTime, sessionStats,
                   accepted>>

\* The effect on lastMessage, lines 28-74.
OnMessage(m) ==
    /\ clock < MaxDash
    /\ clock' = clock + 1
    /\ CASE m.type = "status" ->
                /\ dashConnected' = m.arduino
                /\ n8nConnected' = m.n8n
                /\ UNCHANGED <<latestData, currentSessionId, sessionStartTime,
                               sessionStats, accepted>>
         [] m.type = "arduino_connected" ->
                /\ dashConnected' = TRUE
                /\ UNCHANGED <<n8nConnected, latestData, currentSessionId,
                               sessionStartTime, sessionStats, accepted>>
         [] m.type = "arduino_disconnected" -> OnDisconnected
         [] m.type = "knee_data" ->
                /\ latestData' = Data(m.sessionId, m.kneeAngle)
                /\ updateSessionStats(m)
                /\ UNCHANGED <<dashConnected, n8nConnected, currentSessionId,
                               sessionStartTime>>
         [] m.type = "session_started" ->
                /\ BeginSession(m.sessionId)
                /\ UNCHANGED <<dashConnected, n8nConnected, latestData>>
         [] m.type = "session_stopped" ->
                /\ EndSession
                /\ UNCHANGED <<dashConnected, n8nConnected, latestData>>
         [] OTHER -> UNCHANGED <<dashConnected, n8nConnected, latestData,
                                 currentSessionId, sessionStartTime, sessionStats,
                                 accepted>>
    /\ UNCHANGED <<hostVars, deviceVars, storeVars>>

\* handleConnectionChange(connected), lines 102-110, called by the
\* ConnectionPanel after its own connect or disconnect request succeeded.
handleConnectionChange(connected) ==
    /\ clock < MaxDash
    /\ clock' = clock + 1
    /\ dashConnected' = connected
    /\ IF connected
       THEN UNCHANGED <<latestData, currentSessionId, sessionStartTime, sessionStats,
                        accepted>>
       ELSE /\ latestData' = NoData
            /\ EndSession
    /\ UNCHANGED n8nConnected
    /\ UNCHANGED <<hostVars, deviceVars, storeVars>>

\* handleSessionStart(sessionId), lines 112-121, called by the SessionControl
\* after its start request succeeded.
handleSessionStart(sid) ==
    /\ clock < MaxDash
    /\ clock' = clock + 1
    /\ BeginSession(sid)
    /\ UNCHANGED <<dashConnected, n8nConnected, latestData>>
    /\ UNCHANGED <<hostVars, deviceVars, storeVars>>

\* handleSessionStop(), lines 123-127.
handleSessionStop ==
    /\ clock < MaxDash
    /\ clock' = clock + 1
    /\ EndSession
    /\ UNCHANGED <<dashConnected, n8nConnected, latestData>>
    /\ UNCHANGED <<hostVars, deviceVars, storeVars>>

DashNext ==
    \/ \E m \in DashMessages : OnMessage(m)
    \/ \E connected \in BOOLEAN : handleConnectionChange(connected)
    \/ \E sid \in SessionIds : handleSessionStart(sid)
    \/ handleSessionStop

DashSpec == Init /\ [][DashNext]_vars

\* --------------------------------------------------- MemStorage.sessions
\* An optional boolean of a request body: absent, or one value.
OptionalBooleans == {{}, {TRUE}, {FALSE}}

\* x ?? true
OrTrue(x) == IF x = {} THEN TRUE ELSE CHOOSE b \in x : TRUE

\* POST /api/sessions (routes.ts:70-81) -> MemStorage.createSession
\* (part_001:458-474): the record is stored under a fresh id, here its
\* place in the sequence.
createSession(sid, et, active) ==
    /\ Len(sessions) < MaxSessions
    /\ sessions' = Append(sessions, [sessionId |-> sid, exerciseType |-> et,
                                     isActive |-> OrTrue(active)])
    /\ UNCHANGED <<hostVars, deviceVars, dashVars, queryVars>>

\* PATCH /api/sessions/:id (routes.ts:108-119) -> MemStorage.updateSession
\* (part_001:486-494) with isActive in the body; an id that is not stored
\* changes nothing.
updateSession(id, active) ==
    /\ id \in DOMAIN sessions
    /\ sessions[id].isActive # active
    /\ sessions' = [sessions EXCEPT ![id].isActive = active]
    /\ UNCHANGED <<hostVars, deviceVars, dashVars, queryVars>>

\* MemStorage.getActiveSessions, part_001:496-500.
getActiveSessions == {id \in DOMAIN sessions : sessions[id].isActive}

StoreNext ==
    \/ \E sid \in SessionIds, et \in 0..2, active \in OptionalBooleans :
            createSession(sid, et, active)
    \/ \E id \in 1..MaxSessions, active \in BOOLEAN : updateSession(id, active)

StoreSpec == Init /\ [][StoreNext]_vars

\* --------------------------------------------------------- the query API
\* Session ids that frames carry.
FrameSessions == {1, 2}

\* getSensorReadingsBySession, part_001:446-450: the readings of a session
\* held by a store, oldest first.
getSensorReadingsBySession(readings, sid) ==
    SelectSeq(readings, LAMBDA r : r.sessionId = sid)

\* GET /api/sensor-readings?sessionId=sid, routes.ts:122-138: the readings
\* of the session in the store that getStorage() returns.
GetSensorReadings(sid) ==
    /\ Idle
    /\ readingsReply' = <<[sessionId |-> sid,
                           body |-> getSensorReadingsBySession(instanceReadings, sid)]>>
    /\ UNCHANGED <<sessions, instanceReadings, instancePorts, portsReply>>
    /\ UNCHANGED <<hostVars, deviceVars, dashVars>>

\* GET /api/serial/ports, routes.ts:12-30: every port of the system, with
\* the isActive flag of its record in the store that getStorage() returns,
\* false for a port that has no record there.
GetSerialPorts ==
    /\ Idle
    /\ portsReply' = <<[p \in Paths |->
                           instancePorts[p].present /\ instancePorts[p].isActive]>>
    /\ UNCHANGED <<sessions, instanceReadings, instancePorts, readingsReply>>
    /\ UNCHANGED <<hostVars, deviceVars, dashVars>>

\* One connection, the frames it delivers, and the API asked at any moment.
QueryNext ==
    \/ \E p \in Paths : Connect(1, p)
    \/ OpenEvent(1)
    \/ OpenSetActive(1)
    \/ OpenEmitConnected(1)
    \/ \E line \in PipeLines : Receive(1, line)
    \/ \E sid \in FrameSessions : GetSensorReadings(sid)
    \/ GetSerialPorts

QuerySpec == Init /\ [][QueryNext]_vars

\* ------------------------------------------------------------ properties
\* Frame f has just been emitted as kneeData.
NewFrame(f) == f = Len(frames) + 1 /\ Len(frames') = f

\* Frame f reaches client k in this step.
Delivered(f, k) == wsFrames'[k] = Append(wsFrames[k], f)

\* C1: a valid frame is broadcast to the open subscribers in the step that
\* receives it, whatever the state of its analytics POST: no frame waits for
\* an analytics call.
BroadcastNotDelayed ==
    [][\A f \in 1..MaxLines, k \in Clients :
          NewFrame(f) /\ clients[k] = "open" => Delivered(f, k)]_vars

\* C2: when the analytics POST of a frame fails, the reachability flag goes
\* false, nothing is thrown out of the dispatch path, and the frame is still
\* broadcast to the open subscribers.
AnalyticsFailureContained ==
    [][\A f \in DOMAIN frames :
          frames[f].fetch = "inflight" /\ frames'[f].fetch = "failed"
          => /\ n8nIsConnected' = FALSE
             /\ unhandled' = unhandled
             /\ \A k \in Clients : clients[k] = "open" =>
                    \E i \in DOMAIN wsFrames'[k] : wsFrames'[k][i] = f]_vars

\* A KNEE_DATA line whose payload is not JSON or lacks a required field.
Malformed(line) ==
    /\ line.tag = "KNEE_DATA:"
    /\ line.rest.kind # "json" \/ line.rest.present # FieldNames

\* A KNEE_DATA line with every field and an exercise mode of 0, 1 or 2.
WellFormed(line) ==
    /\ line.tag = "KNEE_DATA:"
    /\ line.rest.kind = "json"
    /\ line.rest.present = FieldNames
    /\ line.rest.et2 \in {0, 2, 4}

\* C3: a malformed KNEE_DATA line yields exactly one parseError carrying the
\* line, no kneeData, no insert and nothing thrown; a valid KNEE_DATA line,
\* whatever came before it, yields exactly one kneeData and one insert.
ParseErrorContained ==
    [][nLines' = nLines + 1 =>
          /\ Malformed(lastLine') =>
                /\ evCount' = [evCount EXCEPT !["parseError"] = @ + 1]
                /\ lastParseError' = lastLine'
                /\ UNCHANGED <<frames, sensorReadings, unhandled>>
          /\ WellFormed(lastLine') =>
                /\ evCount' = [evCount EXCEPT !["kneeData"] = @ + 1]
                /\ Len(frames') = Len(frames) + 1
                /\ Len(sensorReadings') = Len(sensorReadings) + 1
                /\ sensorReadings'[Len(sensorReadings')].sessionId = lastLine'.rest.sid
                /\ UNCHANGED <<lastParseError, unhandled>>]_vars

\* C3 witness: a valid frame was accepted right after a malformed one.
ValidAfterMalformed ==
    /\ nLines = 2
    /\ evCount["parseError"] = 1
    /\ evCount["kneeData"] = 1
    /\ WellFormed(lastLine)
    /\ Len(sensorReadings) = 1

\* Handles that have been constructed and not closed.
Live == {h \in Calls : hstate[h] \in {"opening", "open", "closing"}}

\* Handles whose parser delivers lines to handleArduinoData.
Delivering == {h \in Calls : hstate[h] = "open"}

\* C4: at most one serial handle delivers lines to the parser at any time.
OneLiveHandle == Cardinality(Delivering) <= 1

\* A connect() call that has returned or whose promise has settled.
Completed(c) == connPc[c] \in {"resolved", "rejected", "returnedFalse"}

\* C5: every connect() call that was made eventually completes.
ConnectCompletes ==
    \A c \in Calls : (connPc[c] \in {"awaitDisconnect", "pending"}) ~> Completed(c)

\* connect() call c fails in this step.
Fails(c) == connPc[c] \in {"unused", "awaitDisconnect", "pending"}
            /\ connPc'[c] \in {"rejected", "returnedFalse"}

\* C6: when a connect() call fails, the transport holds no port handle and
\* no parser, reports connected=false and a null path, and no port is
\* recorded as active.
NoPartialStateAfterFailure ==
    [][\A c \in Calls : Fails(c) =>
          /\ port' = NoPort
          /\ parser' = NoPort
          /\ isConnected' = FALSE
          /\ currentPortPath' = NoPath
          /\ getActiveSerialPort(serialPorts') = {}]_vars

\* Handle h has signalled open.
Opened(h) == hstate[h] \in {"open", "closing", "closed"}

\* C7: with connect() and disconnect() called in succession there is never
\* more than one live handle, a settled connected transport has exactly one
\* open handle, the current one on the reported path, and every handle has
\* emitted 'connected' exactly once if it opened and never otherwise.
OneTransportOneConnected ==
    /\ Cardinality(Live) <= 1
    /\ Settled /\ isConnected =>
          /\ Delivering = {port}
          /\ currentPortPath = hpath[port]
    /\ \A h \in Calls :
          /\ connectedEv[h] <= 1
          /\ ~Opened(h) => connectedEv[h] = 0
          /\ Idle /\ Opened(h) => connectedEv[h] = 1

\* C7 witness: connected, then twice disconnected and reconnected, all on
\* the same path.
ReconnectedTwice ==
    /\ \A c \in 1..3 : connPc[c] = "resolved" /\ hpath[c] = 1
    /\ hstate[1] = "closed" /\ hstate[2] = "closed" /\ hstate[3] = "open"
    /\ discDone = 2
    /\ Settled
    /\ isConnected

\* Handle h closes in this step.
Closes(h) == hstate[h] \in {"open", "closing"} /\ hstate'[h] = "closed"

\* C8: whenever a handle closes, a 'disconnected' event is emitted and no
\* port record is marked active afterwards.
CloseClearsActivePort ==
    [][\A h \in Calls : Closes(h) =>
          /\ disconnectedEv'[h] = disconnectedEv[h] + 1
          /\ getActiveSerialPort(serialPorts') = {}]_vars

\* C9: between the resolution of a disconnect() and the next successful
\* connect(), no kneeData is emitted, nothing is inserted and nothing is
\* forwarded to the analytics endpoint.
QuietAfterDisconnect ==
    [][quiet => /\ evCount'["kneeData"] = evCount["kneeData"]
                /\ sensorReadings' = sensorReadings
                /\ frames' = frames]_vars

\* C10: every disconnect() call resolves; at the moment it resolves the
\* transport reports connected=false and a null port path, and it goes on
\* reporting them until a connect() succeeds.
DisconnectResolves ==
    /\ [][discDone' > discDone =>
             /\ isConnected' = FALSE
             /\ currentPortPath' = NoPath]_vars
    /\ [](quiet /\ Idle => ~isConnected /\ currentPortPath = NoPath)
    /\ (discDone < discCalls) ~> (discDone = discCalls)

\* C10 witness: two disconnect() calls have resolved, one of them on a
\* transport whose handle had opened.
DisconnectedTwice ==
    /\ discCalls = 2
    /\ discDone = 2
    /\ \E h \in Calls : hstate[h] = "closed" /\ connectedEv[h] = 1
    /\ ~isConnected
    /\ port = NoPort

\* sendCommand(cmd) is called in this step.
Sends(cmd) == /\ Len(sendLog') = Len(sendLog) + 1
              /\ sendLog'[Len(sendLog')].cmd = cmd

\* The result of the sendCommand() call made in this step.
SendResult == sendLog'[Len(sendLog')].result

\* C11: sendCommand fails when the transport is not connected: it returns
\* false, writes nothing to any port and changes no transport state; when
\* the transport is connected it writes exactly the command followed by one
\* newline (or reports the I/O error of the open port).
SendCommandContract ==
    [][\A cmd \in Commands : Sends(cmd) =>
          IF ~isConnected
          THEN /\ SendResult = "false"
               /\ UNCHANGED <<written, deferred, transportVars>>
          ELSE \/ /\ SendResult = "true"
                  /\ \E h \in Calls :
                        written' = [written EXCEPT ![h] = @ \o <<cmd, "\n">>]
               \/ /\ isOpen(port)
                  /\ SendResult = "false"
                  /\ UNCHANGED written]_vars

\* The line the device printed last.
LastOut == btOut[Len(btOut)]

\* C17: START_SESSION:<id>, received while Idle or while Recording, puts
\* the device in Recording with session id <id> and prints exactly one line,
\* SESSION_STARTED:<id>.
StartSessionRecords ==
    [][\A id \in DevIds :
          handleBluetoothCommand(Cmd("START_SESSION:", id)) =>
              /\ isRecording'
              /\ sessionId' = id
              /\ btOut' = Append(btOut, Out("SESSION_STARTED:", id))]_vars

\* C17 witness: session b was started while session a was being recorded.
RestartedWhileRecording ==
    /\ Len(btOut) >= 2
    /\ btOut[Len(btOut) - 1] = Out("SESSION_STARTED:", <<"a">>)
    /\ LastOut = Out("SESSION_STARTED:", <<"b">>)
    /\ isRecording
    /\ sessionId = <<"b">>

\* C18: STOP_SESSION leaves the device Idle with an empty session id and
\* prints one SESSION_STOPPED line, also when the device was Idle already;
\* in every state an Idle device has an empty session id.
StopSessionIdles ==
    /\ [][handleBluetoothCommand(Cmd("STOP_SESSION", <<>>)) =>
              /\ ~isRecording'
              /\ sessionId' = <<>>
              /\ btOut' = Append(btOut, Out("SESSION_STOPPED", <<>>))]_vars
    /\ [](~isRecording => sessionId = <<>>)

\* C18 witness: a session was stopped, then STOP_SESSION came again.
StoppedTwice ==
    /\ Len(btOut) >= 3
    /\ btOut[Len(btOut) - 2].tag = "SESSION_STARTED:"
    /\ btOut[Len(btOut) - 1] = Out("SESSION_STOPPED", <<>>)
    /\ LastOut = Out("SESSION_STOPPED", <<>>)
    /\ ~isRecording
    /\ sessionId = <<>>

\* C19: SET_EXERCISE:<mode> sets the exercise mode and leaves the recording
\* flag and the session id as they were, in every state.
SetExerciseInPlace ==
    [][/\ \A m \in ModeTexts :
             handleBluetoothCommand(Cmd("SET_EXERCISE:", m)) =>
                 UNCHANGED <<isRecording, sessionId>>
       /\ \A mode \in 0..2 :
             handleBluetoothCommand(Cmd("SET_EXERCISE:", <<DigitChar(mode)>>)) =>
                 /\ exerciseType' = mode
                 /\ LastOut' = Out("EXERCISE_SET:", <<DigitChar(mode)>>)]_vars

\* C19 witness: the mode was set to 2 during the recording of session a.
ModeSetWhileRecording ==
    /\ isRecording
    /\ sessionId = <<"a">>
    /\ exerciseType = 2
    /\ LastOut = Out("EXERCISE_SET:", <<"2">>)

\* C20: CALIBRATE prints CALIBRATING, then CALIBRATION_COMPLETE with no
\* line in between, and the recording flag, the session id and the exercise
\* mode are after the calibration what they were before it.
CalibrateKeepsSession ==
    /\ [][handleBluetoothCommand(Cmd("CALIBRATE", <<>>)) =>
              /\ devPc' = "calibrate"
              /\ btOut' = Append(btOut, Out("CALIBRATING", <<>>))
              /\ UNCHANGED <<isRecording, sessionId, exerciseType>>]_vars
    /\ [][devPc = "calibrate" =>
              /\ LastOut = Out("CALIBRATING", <<>>)
              /\ UNCHANGED <<isRecording, sessionId, exerciseType>>
              /\ devPc' # "calibrate" =>
                     btOut' = Append(btOut, Out("CALIBRATION_COMPLETE", <<>>))]_vars

\* C20 witness: a calibration asked for during the recording of session a
\* has ended.
CalibratedWhileRecording ==
    /\ Len(btOut) >= 2
    /\ btOut[Len(btOut) - 1] = Out("CALIBRATING", <<>>)
    /\ LastOut = Out("CALIBRATION_COMPLETE", <<>>)
    /\ devPc = "loop"
    /\ isRecording
    /\ sessionId = <<"a">>
    /\ exerciseType = 1

\* C12: starting a session while one is active fails, and the session that
\* was active stays active with its id and its aggregates.
StartWhileActiveRefused ==
    [][\A m \in DashMessages :
          (m.type = "session_started" /\ currentSessionId # NoSession /\ OnMessage(m))
          => UNCHANGED <<currentSessionId, sessionStartTime, sessionStats>>]_vars

\* C13: at most one session record is active at any time.
OneActiveSession == Cardinality(getActiveSessions) <= 1

\* C14: once an arduino_disconnected message has been handled the Dashboard
\* holds no session: no current session id, no start time, no aggregates.
DisconnectEndsSession ==
    [][\A m \in DashMessages :
          (m.type = "arduino_disconnected" /\ OnMessage(m))
          => /\ currentSessionId' = NoSession
             /\ sessionStartTime' = NoTime
             /\ sessionStats' = NoStats]_vars

\* C15: a reading that arrives while no session is active, or that carries
\* another session id than the active one, changes no aggregate.
ForeignReadingIgnored ==
    [][\A m \in DashMessages :
          (/\ m.type = "knee_data"
           /\ OnMessage(m)
           /\ (currentSessionId = NoSession \/ m.sessionId # currentSessionId))
          => UNCHANGED sessionStats]_vars

RECURSIVE SeqSum(_)
SeqSum(q) == IF q = <<>> THEN 0 ELSE Head(q) + SeqSum(Tail(q))

RECURSIVE SeqMax(_)
SeqMax(q) == IF q = <<>> THEN 0 ELSE Max(Head(q), SeqMax(Tail(q)))

\* C16: the running aggregates equal a recompute over the readings counted
\* since the session started: their number, their maximum, and a mean that
\* times their number gives their sum.
AggregatesMatchRecompute ==
    sessionStats.present =>
        /\ sessionStats.readingCount = Len(accepted)
        /\ sessionStats.maxAngle = SeqMax(accepted)
        /\ sessionStats.avgAngle.num * Len(accepted)
               = SeqSum(accepted) * sessionStats.avgAngle.den

\* C16 witness: three readings counted, with a mean that is no integer.
ThreeReadingsCounted ==
    /\ sessionStats.present
    /\ accepted = <<45, 160, 0>>
    /\ sessionStats.readingCount = 3
    /\ sessionStats.maxAngle = 160
    /\ sessionStats.avgAngle = Frac(205, 3)

\* C21: calibration is atomic for the device loop. From CALIBRATING to the
\* matching CALIBRATION_COMPLETE the device samples nothing, handles no
\* command and prints nothing but the completion notice, so a sampling
\* interval never sees offsets of which only a part is measured.
CalibrationAtomic ==
    [][/\ devPc \in {"setup", "calibrate"} =>
            /\ nTicks' = nTicks
            /\ nCmds' = nCmds
            /\ \/ btOut' = btOut
               \/ /\ Len(btOut') > Len(btOut)
                  /\ btOut'[Len(btOut) + 1] = Out("CALIBRATION_COMPLETE", <<>>)
                  /\ devPc' = "loop"
       /\ nTicks' # nTicks => calStep = 0 /\ devPc = "loop" /\ LastOut # Out("CALIBRATING", <<>>)
      ]_vars

\* C21 witness: a recording device half way through a calibration, the
\* accelerometer offsets measured and the gyroscope offsets not yet.
HalfCalibratedWhileRecording ==
    /\ isRecording
    /\ devPc = "calibrate"
    /\ calStep = 1
    /\ offsets = Offsets(1, 1, 0, 0, 0)

\* C22: the status round trip. The status object the host decodes from the
\* STATUS: line printed for GET_STATUS has the recording flag, the session
\* id and the exercise mode the device had, and GET_STATUS changes nothing
\* on the device.
StatusRoundTrip ==
    [][handleBluetoothCommand(Cmd("GET_STATUS", <<>>)) =>
            /\ btOut' = Append(btOut, LastOut')
            /\ LastOut'.tag = "STATUS:"
            /\ decodeStatus(LastOut'.arg) =
                    [recording |-> isRecording, sessionId |-> sessionId,
                     exerciseType |-> exerciseType]
            /\ UNCHANGED <<sessionId, isRecording, exerciseType, offsets, devPc>>
      ]_vars

\* The telemetry lines among the lines the device has printed.
KneeLines(out) == SelectSeq(out, LAMBDA l : l.tag = "KNEE_DATA:")

\* C23: a sampling interval of a recording device prints exactly one
\* KNEE_DATA line, and the line carries the session id and the exercise
\* mode of that moment; a sampling interval of an idle device prints none.
OneFramePerTick ==
    [][nTicks' # nTicks =>
            IF isRecording
            THEN /\ btOut' = Append(btOut, LastOut')
                 /\ LastOut' = Out("KNEE_DATA:", FrameText(sessionId, exerciseType))
                 /\ Len(KneeLines(btOut')) = Len(KneeLines(btOut)) + 1
            ELSE btOut' = btOut
      ]_vars

\* C23 witness: a device recording session b in mode 2 has sampled once.
SampledWhileRecording ==
    /\ nTicks = 1
    /\ isRecording
    /\ sessionId = <<"b">>
    /\ exerciseType = 2
    /\ LastOut = Out("KNEE_DATA:", FrameText(<<"b">>, 2))

\* The commands of the protocol: the two with an argument, the three without.
Recognized(command) ==
    \/ command.head \in {"START_SESSION:", "SET_EXERCISE:"}
    \/ /\ command.head \in {"STOP_SESSION", "CALIBRATE", "GET_STATUS"}
       /\ command.arg = <<>>

\* C24: a command the device does not recognize is ignored: the recording
\* flag, the session id, the exercise mode and the calibration offsets keep
\* their values, no calibration starts and no line is printed.
UnrecognizedIgnored ==
    [][\A command \in DevCommands :
            ~Recognized(command) /\ handleBluetoothCommand(command) =>
                UNCHANGED <<isRecording, sessionId, exerciseType, offsets, calStep,
                            devPc, btOut>>
      ]_vars

\* C24 witness: a recording device has handled two commands and printed
\* one answer, that of START_SESSION; the other command was not recognized.
IgnoredOneCommand ==
    /\ nCmds = 2
    /\ devPc = "loop"
    /\ isRecording
    /\ Len(btOut) = 4
    /\ LastOut = Out("SESSION_STARTED:", <<"a">>)

\* x lies between the whole numbers low and high.
Within(x, low, high) == x.den > 0 /\ ~Less(x, Num(low)) /\ ~Less(Num(high), x)

\* The joint angle of the specification: 180 - |pitch| in mode 0, |roll| in
\* mode 2, |pitch| in every other mode, then brought into [0, 160].
JointAngle(mode, r, p) ==
    LET size(x) == IF x.num < 0 THEN Neg(x) ELSE x
        raw == IF mode = 0 THEN Add(Num(180), Neg(size(p)))
               ELSE IF mode = 2 THEN size(r)
               ELSE size(p)
    IN IF raw.num < 0 THEN Num(0)
       ELSE IF raw.num > 160 * raw.den THEN Num(160)
       ELSE raw

\* C25: the joint angle is a function of the mode, the roll and the pitch
\* only: 180 - |pitch| in mode 0, |pitch| in mode 1, |roll| in mode 2,
\* |pitch| in any other mode, clamped to [0, 160]. Mode 2 with roll 30 gives
\* 30, mode 0 with pitch 170 gives 10, mode 1 with pitch -45 gives 45.
KneeAngleIsFunction ==
    [][nTicks' # nTicks =>
            /\ debugAngle' = JointAngle(exerciseType, roll', pitch')
            /\ \A r \in {roll, roll'} :
                    /\ getKneeAngle(2, Num(30), r) = Num(30)
                    /\ getKneeAngle(0, r, Num(170)) = Num(10)
                    /\ getKneeAngle(1, r, Num(0 - 45)) = Num(45)
      ]_vars

\* C25 witness: in mode 2 the device has printed the size of a negative
\* roll that differs from the pitch.
LateralAngleOfNegativeRoll ==
    /\ nTicks = 1
    /\ exerciseType = 2
    /\ Less(roll, Zero)
    /\ abs(pitch) # abs(roll)
    /\ debugAngle = Neg(roll)

ClampedElapsedTime ==
    [][nTicks' # nTicks =>
            /\ Less(Zero, elapsedTime')
            /\ sensor.elapsed <= 0 =>
                  LET ms == Frac(1, 1000)
                      acc(a) == IF sensor.freeFall THEN Zero ELSE Num(a)
                      blend(prev, g, a) ==
                          Add(Mul(Frac(24, 25), Add(prev, Mul(Num(g), ms))),
                              Mul(Frac(1, 25), acc(a)))
                  IN /\ elapsedTime' = ms
                     /\ gyroAngleZ' =
                            Add(gyroAngleZ,
                                Mul(Num(sensor.gyroZ - offsets.GyroErrorZ), ms))
                     /\ roll' = constrain(blend(roll, sensor.gyroX - offsets.GyroErrorX,
                                                sensor.accX - offsets.AccErrorX),
                                          0 - 180, 180)
                     /\ pitch' = constrain(blend(pitch,
                                                 sensor.gyroY - offsets.GyroErrorY,
                                                 sensor.accY - offsets.AccErrorY),
                                           0 - 180, 180)
      ]_vars

\* C27 witness: the clock has reported a negative time and the yaw rate of
\* -250 degrees a second was integrated over one millisecond.
TickedOnWrappedClock ==
    /\ nTicks = 1
    /\ sensor.elapsed < 0
    /\ offsets.GyroErrorZ = 0
    /\ elapsedTime = Frac(1, 1000)
    /\ gyroAngleZ = Frac(0 - 1, 4)

\* No subscriber is open.
NobodyListens == \A k \in Clients : clients[k] # "open"

\* C28: with no subscriber the broadcast raises nothing and holds up
\* nothing: a valid frame received while no client is open is inserted into
\* the store and posted to the analytics endpoint, and the broadcast that
\* follows the answer sends nothing and throws nothing.
NoSubscriberKeepsSinks ==
    [][NobodyListens =>
         /\ nLines' # nLines /\ handleArduinoData(lastLine') = "kneeData" =>
               /\ sensorReadings' =
                      Append(sensorReadings, [sessionId |-> lastLine'.rest.sid,
                                              exerciseType |-> lastLine'.rest.et2 \div 2])
               /\ Len(frames') = Len(frames) + 1
               /\ frames'[Len(frames')].fetch = "inflight"
               /\ unhandled' = unhandled
         /\ \A f \in DOMAIN frames :
               frames[f].fetch = "inflight" /\ frames'[f].fetch = "ok" =>
                   /\ unhandled' = unhandled
                   /\ wsFrames' = wsFrames
                   /\ sensorReadings' = sensorReadings
      ]_vars

\* C28 witness: no client ever connected; a frame was received, stored,
\* posted and acknowledged, and nothing was thrown.
FrameStoredUnwatched ==
    /\ \A k \in Clients : clients[k] = "new"
    /\ Len(sensorReadings) = 1
    /\ Len(frames) = 1
    /\ frames[1].fetch = "ok"
    /\ unhandled = 0
    /\ \A k \in Clients : wsFrames[k] = <<>>

\* C29: each lifecycle event of the parser (sessionStarted, sessionStopped,
\* calibrationComplete, parseError) is broadcast as a typed event to every
\* subscriber open at that moment; a parse fault is observable by the live
\* subscribers.
LifecycleEventsBroadcast ==
    [][\A k \in Clients : clients[k] = "open" =>
          /\ evCount'["sessionStarted"] # evCount["sessionStarted"] =>
                wsCount'[k]["session_started"] = wsCount[k]["session_started"] + 1
          /\ evCount'["sessionStopped"] # evCount["sessionStopped"] =>
                wsCount'[k]["session_stopped"] = wsCount[k]["session_stopped"] + 1
          /\ evCount'["calibrationComplete"] # evCount["calibrationComplete"] =>
                wsCount'[k]["calibration_complete"] =
                    wsCount[k]["calibration_complete"] + 1
          /\ evCount'["parseError"] # evCount["parseError"] =>
                \E t \in MsgTypes : wsCount'[k][t] = wsCount[k][t] + 1
      ]_vars

\* The tags the host knows.
KnownTags == {"KNEE_DATA:", "SESSION_STARTED:", "SESSION_STOPPED", "CALIBRATION_COMPLETE",
              "SYSTEM_READY", "STATUS:"}

\* C30: a received line with none of the known tags yields exactly one
\* message event that carries the line, and no parseError; every received
\* line yields exactly one classified event.
UnknownTagIsMessage ==
    [][nLines' # nLines =>
         /\ \E e \in ParserEvents : evCount' = [evCount EXCEPT ![e] = @ + 1]
         /\ lastLine'.tag \notin KnownTags =>
               /\ evCount'["message"] = evCount["message"] + 1
               /\ lastMessage' = lastLine'
               /\ evCount'["parseError"] = evCount["parseError"]
               /\ lastParseError' = lastParseError
      ]_vars

\* C30 witness: the answer to SET_EXERCISE was received, after a frame, and
\* surfaced as the one message event; no fault was raised.
ModeAnswerSurfaced ==
    /\ nLines = 2
    /\ evCount["kneeData"] = 1
    /\ evCount["message"] = 1
    /\ evCount["parseError"] = 0
    /\ lastMessage = Line("EXERCISE_SET:", Rest("text", {}, 0, 1))
    /\ lastLine = lastMessage

\* C31: the host accepts a KNEE_DATA frame only if its exercise mode is an
\* integer in {0, 1, 2}. A complete frame with any other mode raises
\* parseError and is neither broadcast, stored nor posted to the analytics
\* endpoint.
OnlyKnownModesAccepted ==
    [][nLines' # nLines =>
         /\ evCount'["kneeData"] # evCount["kneeData"] => lastLine'.rest.et2 \in {0, 2, 4}
         /\ /\ lastLine'.tag = "KNEE_DATA:"
            /\ lastLine'.rest.kind = "json"
            /\ lastLine'.rest.present = FieldNames
            /\ lastLine'.rest.et2 \notin {0, 2, 4}
            => /\ evCount' = [evCount EXCEPT !["parseError"] = @ + 1]
               /\ lastParseError' = lastLine'
               /\ UNCHANGED <<frames, sensorReadings, wsFrames, wsCount>>
      ]_vars

\* C31 witness: with a subscriber open, complete frames of mode 3 and of
\* mode -1 were received and refused: nothing stored, posted or broadcast.
UnknownModesRefused ==
    /\ nLines = 2
    /\ \E k \in Clients : clients[k] = "open" /\ wsFrames[k] = <<>>
    /\ evCount["parseError"] = 2
    /\ lastParseError \in {Frame(3, 1), Frame(0 - 1, 1)}
    /\ frames = <<>>
    /\ sensorReadings = <<>>

\* C32: the device handles one command per line. Commands sent back to
\* back are each handled as a command of their own, in the order sent,
\* whenever they arrive: the k-th command the device handles is the k-th
\* command sent.
OneCommandPerLine ==
    [][nCmds' # nCmds =>
           /\ nCmds < Len(sentCmds)
           /\ handleBluetoothCommand(sentCmds[nCmds + 1])
      ]_vars

\* C33: a failing insert never stalls ingestion.  Every valid frame is
\* emitted as kneeData and makes exactly one insert attempt, whatever the
\* earlier attempts did; a failed attempt leaves no reading and no unhandled
\* rejection behind, and the next line can always be taken.
InsertFailureContained ==
    /\ [](nLines < MaxLines => ENABLED Receive(1, Frame(0, 1)))
    /\ [][\A line \in PipeLines :
              Receive(1, line) /\ handleArduinoData(line) = "kneeData" =>
                  /\ evCount'["kneeData"] = evCount["kneeData"] + 1
                  /\ Len(frames') = Len(frames) + 1
                  /\ insertLog' = Append(insertLog, IF storageUp THEN "ok" ELSE "failed")
                  /\ Len(sensorReadings') = Len(sensorReadings) + (IF storageUp THEN 1 ELSE 0)
                  /\ unhandled' = unhandled
         ]_vars

\* A frame was ingested and attempted after the insert of the one before it
\* had failed.
IngestedAfterFailedInsert ==
    /\ Len(insertLog) = 2
    /\ insertLog[1] = "failed"
    /\ insertLog[2] = "ok"
    /\ evCount["kneeData"] = 2
    /\ Len(frames) = 2
    /\ Len(sensorReadings) = 1
    /\ unhandled = 0

\* C34: a frame reaches a subscriber at most once, and only a subscriber
\* whose socket is open in the step that publishes it; a subscriber attaching
\* or detaching changes nothing of ingestion, which can take the next line in
\* every state.
DeliveredOnceToOpenSubscribers ==
    /\ [](\A k \in Clients : \A i, j \in DOMAIN wsFrames[k] :
              wsFrames[k][i] = wsFrames[k][j] => i = j)
    /\ [](nLines < MaxLines => \A line \in PipeLines : ENABLED Receive(1, line))
    /\ [][\A k \in Clients :
              /\ wsFrames'[k] # wsFrames[k] =>
                     /\ clients[k] = "open"
                     /\ \E f \in DOMAIN frames :
                            frames[f].fetch = "inflight" /\ Delivered(f, k)
              /\ WsConnect(k) \/ WsClose(k) =>
                     UNCHANGED <<nLines, lastLine, evCount, frames, sensorReadings,
                                 insertLog, wsFrames>>
         ]_vars

\* A subscriber received the first frame, closed, and the second frame was
\* published without it.
PublishedAfterSubscriberLeft ==
    \E k \in Clients :
        /\ clients[k] = "closed"
        /\ wsFrames[k] = <<1>>
        /\ Len(frames) = 2
        /\ frames[2].fetch = "ok"

\* C35: every KNEE_DATA line the device has printed carries an exercise
\* mode of 0, 1 or 2, whatever commands it has handled.
FramesCarryKnownMode ==
    \A i \in DOMAIN btOut :
        btOut[i].tag = "KNEE_DATA:" =>
            \E sid \in DevIds, mode \in 0..2 : btOut[i] = KneeData(sid, mode)

\* C36: every subscriber receives frames in the order the link delivered
\* them: of two frames in a subscriber's messages, the one received first
\* comes first, whatever the order in which the analytics calls complete.
BroadcastInArrivalOrder ==
    \A k \in Clients : \A i, j \in DOMAIN wsFrames[k] :
        i < j => wsFrames[k][i] < wsFrames[k][j]

\* C37: in every state of the port registry, the states between the awaited
\* steps of the open handler included, at most one record is active; and
\* when the open handler has called setActiveSerialPort the active record is
\* the record of the path it opened.
AtMostOneActivePort ==
    /\ [](Cardinality(getActiveSerialPort(serialPorts)) <= 1)
    /\ [][\A h \in Calls :
              OpenSetActive(h) => getActiveSerialPort(serialPorts') = {hpath[h]}]_vars

\* C38: what ingestion writes is what the query interface reads.  The
\* readings-by-session query answers with the readings inserted for the
\* frames of that session, and the port listing reports active exactly the
\* port recorded active on open.
QueryReadsWhatIngestionWrote ==
    [][/\ \A sid \in FrameSessions :
              GetSensorReadings(sid) =>
                  readingsReply'[1].body = getSensorReadingsBySession(sensorReadings, sid)
       /\ GetSerialPorts =>
              \A p \in Paths :
                  portsReply'[1][p] = (p \in getActiveSerialPort(serialPorts))
      ]_vars

\* C39: in every state of the transport the reported connected flag is
\* true exactly when the reported port path is not null, and a transport
\* that reports connected holds a port handle.
StatusAgreesWithHandle ==
    /\ getConnectionStatus.connected <=> getConnectionStatus.port # NoPath
    /\ getConnectionStatus.connected => port # NoPort

TypeOK ==
    /\ port \in Calls \cup {NoPort}
    /\ parser \in Calls \cup {NoPort}
    /\ isConnected \in BOOLEAN
    /\ currentPortPath \in Paths \cup {NoPath}
    /\ hstate \in [Calls -> HandleStates]
    /\ connPc \in [Calls -> ConnPcs]

====
